---- MODULE Spec2Model ----
(***************************************************************************)
(* A model of google/traceout: the cparse expression engine (values,       *)
(* integer promotion and balancing, the evaluator, the parser).            *)
(*                                                                         *)
(* A Go uint64 is modelled as a sequence of eight bytes, least significant *)
(* byte first, so that every operation keeps its 64-bit width.             *)
(***************************************************************************)
EXTENDS Integers, Sequences, FiniteSets, TLC

\* ------------------------------------------------------------------------
\* Bounds of the model
\* ------------------------------------------------------------------------

\* Operand values are drawn from -MaxSmall..MaxSmall and the boundary values
\* of each integer type.
MaxSmall == 3

\* The most digits after the first one of a literal
MaxDigits == 16

\* The most operators of an input with any operators between its operands
MaxOperators == 2

\* The most operators of an input with the operators of nested ternaries
MaxNest == 4

\* The most pieces of an input with unary operators and casts
MaxUnits == 4

\* The most characters of an input text of the lexer
MaxInput == 3

\* The dynamic data of a record has at most MaxData bytes
MaxData == 3

\* PrepareCapture is called for NumCpus cpus
NumCpus == 2

\* The raw pipe of a cpu gives at most MaxPages pages
MaxPages == 2

\* The first page of a raw pipe holds at most MaxEntries entries
MaxEntries == 2

\* A path given to a file provider has at most MaxPath characters
MaxPath == 5

\* ------------------------------------------------------------------------
\* uint64 arithmetic (Go's built-in operators on uint64 / int64)
\* ------------------------------------------------------------------------

Limbs == 1..8

Zero64 == <<0, 0, 0, 0, 0, 0, 0, 0>>

One64 == <<1, 0, 0, 0, 0, 0, 0, 0>>

AllOnes64 == <<255, 255, 255, 255, 255, 255, 255, 255>>

\* uint64(n) for a small natural n (n < 2^24)
U64FromNat(n) ==
    <<n % 256, (n \div 256) % 256, (n \div 65536) % 256, 0, 0, 0, 0, 0>>

RECURSIVE ByteAnd(_, _)
ByteAnd(x, y) ==
    IF x = 0 \/ y = 0 THEN 0
    ELSE (x % 2) * (y % 2) + 2 * ByteAnd(x \div 2, y \div 2)

ByteOr(x, y) == x + y - ByteAnd(x, y)

ByteXor(x, y) == x + y - 2 * ByteAnd(x, y)

\* a & b
U64And(a, b) == [i \in Limbs |-> ByteAnd(a[i], b[i])]

\* a | b
U64Or(a, b) == [i \in Limbs |-> ByteOr(a[i], b[i])]

\* a ^ b
U64Xor(a, b) == [i \in Limbs |-> ByteXor(a[i], b[i])]

\* ^a
U64Not(a) == [i \in Limbs |-> 255 - a[i]]

RECURSIVE AddCarry(_, _, _, _)
AddCarry(a, b, i, c) ==
    IF i > 8 THEN <<>>
    ELSE LET s == a[i] + b[i] + c
         IN  <<s % 256>> \o AddCarry(a, b, i + 1, s \div 256)

\* a + b, modulo 2^64
U64Add(a, b) == AddCarry(a, b, 1, 0)

\* -a, modulo 2^64
U64Neg(a) == U64Add(U64Not(a), One64)

\* a - b, modulo 2^64
U64Sub(a, b) == U64Add(a, U64Neg(b))

RECURSIVE ColumnSum(_, _, _, _)
ColumnSum(a, b, k, i) ==
    IF i > k THEN 0 ELSE a[i] * b[k + 1 - i] + ColumnSum(a, b, k, i + 1)

RECURSIVE MulCarry(_, _, _, _)
MulCarry(a, b, k, c) ==
    IF k > 8 THEN <<>>
    ELSE LET s == ColumnSum(a, b, k, 1) + c
         IN  <<s % 256>> \o MulCarry(a, b, k + 1, s \div 256)

\* a * b, modulo 2^64
U64Mul(a, b) == MulCarry(a, b, 1, 0)

RECURSIVE LessFrom(_, _, _)
LessFrom(a, b, i) ==
    IF i = 0 THEN FALSE
    ELSE IF a[i] # b[i] THEN a[i] < b[i]
    ELSE LessFrom(a, b, i - 1)

\* a < b as uint64
U64Less(a, b) == LessFrom(a, b, 8)

\* int64(a) < 0
I64Negative(a) == a[8] >= 128

\* int64(a) < int64(b)
I64Less(a, b) ==
    IF I64Negative(a) # I64Negative(b) THEN I64Negative(a) ELSE U64Less(a, b)

\* bit k (0..63) of a
U64Bit(a, k) == (a[(k \div 8) + 1] \div (2 ^ (k % 8))) % 2

\* a with bit k (0..63), which is clear, set
U64SetBit(a, k) == [a EXCEPT ![(k \div 8) + 1] = @ + 2 ^ (k % 8)]

\* a << n for 0 <= n < 64
U64ShlSmall(a, n) ==
    LET q == n \div 8
        r == n % 8
    IN  [i \in Limbs |->
            (IF i - q >= 1 THEN (a[i - q] * (2 ^ r)) % 256 ELSE 0)
          + (IF i - q - 1 >= 1 THEN a[i - q - 1] \div (2 ^ (8 - r)) ELSE 0)]

\* a >> n for 0 <= n < 64
U64ShrSmall(a, n) ==
    LET q == n \div 8
        r == n % 8
    IN  [i \in Limbs |->
            (IF i + q <= 8 THEN a[i + q] \div (2 ^ r) ELSE 0)
          + (IF i + q + 1 <= 8 THEN (a[i + q + 1] * (2 ^ (8 - r))) % 256 ELSE 0)]

\* The shift count n is a uint64: a count of 64 or more shifts every bit out.
ShiftCountSmall(n) == n[1] < 64 /\ \A i \in 2..8 : n[i] = 0

\* a << n
U64Shl(a, n) == IF ShiftCountSmall(n) THEN U64ShlSmall(a, n[1]) ELSE Zero64

\* a >> n
U64Shr(a, n) == IF ShiftCountSmall(n) THEN U64ShrSmall(a, n[1]) ELSE Zero64

\* Long division, one bit of the dividend per step, from bit k down to bit 0:
\* the result is <<quotient, remainder>>.
RECURSIVE DivStep(_, _, _, _, _)
DivStep(n, d, k, q, r) ==
    IF k < 0 THEN <<q, r>>
    ELSE LET top == U64Bit(r, 63) = 1
             r1  == LET s == U64Add(r, r)
                    IN  IF U64Bit(n, k) = 1 THEN U64SetBit(s, 0) ELSE s
         IN  IF top \/ ~U64Less(r1, d)
             THEN DivStep(n, d, k - 1, U64SetBit(q, k), U64Sub(r1, d))
             ELSE DivStep(n, d, k - 1, q, r1)

\* The highest set bit of a, or 0 when a = 0
RECURSIVE TopBit(_, _)
TopBit(a, k) == IF k = 0 \/ U64Bit(a, k) = 1 THEN k ELSE TopBit(a, k - 1)

\* Short division by a divisor d of less than 2^23, one byte of the dividend
\* per step, from byte i down to byte 1: the result is <<quotient, remainder>>.
RECURSIVE DivBytes(_, _, _, _, _)
DivBytes(n, d, i, q, r) ==
    IF i = 0 THEN <<q, U64FromNat(r)>>
    ELSE LET cur == r * 256 + n[i]
         IN  DivBytes(n, d, i - 1, [q EXCEPT ![i] = cur \div d], cur % d)

U64DivMod(n, d) ==
    IF d[3] < 128 /\ \A i \in 4..8 : d[i] = 0
    THEN DivBytes(n, d[1] + 256 * d[2] + 65536 * d[3], 8, Zero64, 0)
    ELSE DivStep(n, d, TopBit(n, 63), Zero64, Zero64)

\* a / b for b # 0
U64Div(a, b) == U64DivMod(a, b)[1]

\* a % b for b # 0
U64Mod(a, b) == U64DivMod(a, b)[2]

\* ------------------------------------------------------------------------
\* Values and integer types (value.go)
\* ------------------------------------------------------------------------

intSize == 4

\* type intType struct { size int; signed bool }
IntType(size, signed) == [size |-> size, signed |-> signed]

\* The zero intType of a Value that is no integer
NoIntType == IntType(0, FALSE)

intCharType == IntType(1, TRUE)

intUCharType == IntType(1, FALSE)

intShortType == IntType(2, TRUE)

intUShortType == IntType(2, FALSE)

intIntType == IntType(4, TRUE)

intUIntType == IntType(4, FALSE)

intLongType == IntType(8, TRUE)

intULongType == IntType(8, FALSE)

IntTypes ==
    {intCharType, intUCharType, intShortType, intUShortType,
     intIntType, intUIntType, intLongType, intULongType}

\* type Value struct { typ; stringVal; intVal; intType; listVal }
NewValueError(error) ==
    [typ |-> "valueError", stringVal |-> error, intVal |-> Zero64,
     intType |-> NoIntType, listVal |-> <<>>]

NewValueInt(val, size, signed) ==
    [typ |-> "valueInt", stringVal |-> "", intVal |-> val,
     intType |-> IntType(size, signed), listVal |-> <<>>]

NewValueString(s) ==
    [typ |-> "valueString", stringVal |-> s, intVal |-> Zero64,
     intType |-> NoIntType, listVal |-> <<>>]

NewValueList(vals) ==
    [typ |-> "valueList", stringVal |-> "", intVal |-> Zero64,
     intType |-> NoIntType, listVal |-> vals]

\* The zero Value (var v1, v2, v3 Value)
ZeroValue ==
    [typ |-> "valueInt", stringVal |-> "", intVal |-> Zero64,
     intType |-> NoIntType, listVal |-> <<>>]

\* A run-time panic of the Go program, which unwinds the evaluation
PanicValue(msg) ==
    [typ |-> "panic", stringVal |-> msg, intVal |-> Zero64,
     intType |-> NoIntType, listVal |-> <<>>]

IsError(v) == v.typ = "valueError"

IsInt(v) == v.typ = "valueInt"

IsString(v) == v.typ = "valueString"

IsList(v) == v.typ = "valueList"

IsPanic(v) == v.typ = "panic"

\* mask := uint64(1<<uint(typ.size*8)) - 1 ; return val & mask
intClamp(val, typ) == [i \in Limbs |-> IF i <= typ.size THEN val[i] ELSE 0]

\* if typ.signed && (val&signMask) != 0 { return val | ^mask } ; return val
intSignExtend(val, typ) ==
    IF typ.signed /\ typ.size >= 1 /\ val[typ.size] >= 128
    THEN [i \in Limbs |-> IF i <= typ.size THEN val[i] ELSE 255]
    ELSE val

newValueIntLike(i, val) ==
    [i EXCEPT !.intVal = intSignExtend(intClamp(val, i.intType), i.intType)]

newValueIntCast(i, intType) ==
    [i EXCEPT !.intType = intType,
              !.intVal = intSignExtend(intClamp(i.intVal, intType), intType)]

\* func (v Value) AsInt() int64, as its 64-bit pattern
AsInt(v) == v.intVal

AsUint64(v) == intClamp(v.intVal, v.intType)

AsBool(v) == v.intVal # Zero64

valueTrue == NewValueInt(One64, 4, TRUE)

valueFalse == NewValueInt(Zero64, 4, TRUE)

NewValueBool(b) == IF b THEN valueTrue ELSE valueFalse

intPromote(i) == IF i.size < intSize THEN IntType(intSize, TRUE) ELSE i

\* panic("truncating in intResize"), as a type no integer has
PanicType == [size |-> -1, signed |-> FALSE]

intResize(i, size) == IF i.size > size THEN PanicType ELSE [i EXCEPT !.size = size]

intSigned(i) == [i EXCEPT !.signed = TRUE]

intUnsigned(i) == [i EXCEPT !.signed = FALSE]

\* A balancing that converts the right operand to the type of the left one
intBalanceToLeft(a, b) == <<a, a>>

\* The pair <<a, b>> of balanced types; the cases are tried in the order of
\* the switch.
intBalance(a, b) ==
    IF a.signed = b.signed /\ a.size = b.size THEN <<a, b>>
    ELSE IF a.signed = b.signed /\ a.size > b.size THEN <<a, intResize(b, a.size)>>
    ELSE IF a.signed = b.signed /\ b.size > a.size THEN <<intResize(a, b.size), b>>
    ELSE IF ~a.signed /\ a.size >= b.size THEN <<a, intUnsigned(intResize(b, a.size))>>
    ELSE IF ~b.signed /\ b.size >= a.size THEN <<intUnsigned(intResize(a, b.size)), b>>
    ELSE IF a.signed /\ a.size > b.size THEN <<a, intSigned(intResize(b, a.size))>>
    ELSE IF b.signed /\ b.size > a.size THEN <<intSigned(intResize(a, b.size)), b>>
    ELSE IF a.signed THEN <<intUnsigned(a), intResize(b, a.size)>>
    ELSE IF b.signed THEN <<intResize(a, b.size), intUnsigned(b)>>
    ELSE <<PanicType, PanicType>>

\* The checks that follow the switch: a panic unless both types agree
BalancePanics(pair) ==
    \/ pair[1] = PanicType
    \/ pair[2] = PanicType
    \/ pair[1].signed # pair[2].signed
    \/ pair[1].size # pair[2].size

\* ------------------------------------------------------------------------
\* Tokens (lex.go)
\* ------------------------------------------------------------------------

Token(typ, val) == [typ |-> typ, val |-> val]

nullToken == Token("tokenNone", "")

stringToToken ==
    [s \in {"+", "-", "!", "~", "*", "/", "%", "<<", ">>", "<", "<=", ">", ">=",
            "==", "!=", "&", "^", "|", "&&", "||", "?", ":", "(", ")", ",",
            "{", "}"} |->
        CASE s = "+" -> "tokenPlus"
          [] s = "-" -> "tokenMinus"
          [] s = "!" -> "tokenBoolNot"
          [] s = "~" -> "tokenNot"
          [] s = "*" -> "tokenMult"
          [] s = "/" -> "tokenDiv"
          [] s = "%" -> "tokenMod"
          [] s = "<<" -> "tokenLeftShift"
          [] s = ">>" -> "tokenRightShift"
          [] s = "<" -> "tokenLess"
          [] s = "<=" -> "tokenLessEqual"
          [] s = ">" -> "tokenGreater"
          [] s = ">=" -> "tokenGreaterEqual"
          [] s = "==" -> "tokenEqual"
          [] s = "!=" -> "tokenNotEqual"
          [] s = "&" -> "tokenAnd"
          [] s = "^" -> "tokenXor"
          [] s = "|" -> "tokenOr"
          [] s = "&&" -> "tokenBoolAnd"
          [] s = "||" -> "tokenBoolOr"
          [] s = "?" -> "tokenQuestion"
          [] s = ":" -> "tokenColon"
          [] s = "(" -> "tokenLeftParen"
          [] s = ")" -> "tokenRightParen"
          [] s = "," -> "tokenComma"
          [] s = "{" -> "tokenLeftBracket"
          [] s = "}" -> "tokenRightBracket"]

\* The token of an operator or punctuation string
OpToken(s) == Token(stringToToken[s], s)

\* ------------------------------------------------------------------------
\* Evaluation of an operator on its operand values (expression.go)
\* ------------------------------------------------------------------------

\* "no error": the operand check passed
NoError ==
    [typ |-> "none", stringVal |-> "", intVal |-> Zero64,
     intType |-> NoIntType, listVal |-> <<>>]

BinaryOnlyTokens ==
    {"tokenMult", "tokenDiv", "tokenMod", "tokenLeftShift", "tokenRightShift",
     "tokenLess", "tokenLessEqual", "tokenGreater", "tokenGreaterEqual",
     "tokenEqual", "tokenNotEqual", "tokenAnd", "tokenXor", "tokenOr",
     "tokenBoolAnd", "tokenBoolOr"}

\* switch e.operator.typ { ... } // Operand checking
OperandCheck(operator, n, v1, v2) ==
    LET name == operator.val
        binary ==
            IF n # 2 THEN NewValueError("wrong number of args to " \o name)
            ELSE IF ~IsInt(v1)
            THEN NewValueError("expected integer as left operand to " \o name)
            ELSE IF ~IsInt(v2)
            THEN NewValueError("expected integer as right operand to " \o name)
            ELSE NoError
    IN  IF operator.typ \in {"tokenNot", "tokenBoolNot"}
        THEN IF n # 1 THEN NewValueError("wrong number of args to " \o name)
             ELSE IF ~IsInt(v1)
             THEN NewValueError("expected integer as left operand to " \o name)
             ELSE NoError
        ELSE IF operator.typ \in {"tokenPlus", "tokenMinus"}
        THEN IF n = 1
             THEN IF ~IsInt(v1)
                  THEN NewValueError("expected integer as left operand to " \o name)
                  ELSE NoError
             ELSE binary
        ELSE IF operator.typ \in BinaryOnlyTokens THEN binary
        ELSE IF operator.typ = "tokenQuestion"
        THEN IF n # 3 THEN NewValueError("wrong number of args to " \o name)
             ELSE IF ~IsInt(v1)
             THEN NewValueError("expected integer as operand to " \o name)
             ELSE NoError
        ELSE NewValueError("unknown operator " \o name)

\* switch e.operator.typ { ... } // Operand type conversion: the operands
\* <<v1, v2, v3>> with their converted types
OperandConversion(operator, n, v1, v2, v3) ==
    IF operator.typ \in {"tokenNot", "tokenBoolNot"}
       \/ (operator.typ \in {"tokenPlus", "tokenMinus"} /\ n = 1)
    THEN <<[v1 EXCEPT !.intType = intPromote(v1.intType)], v2, v3>>
    ELSE IF operator.typ \in {"tokenLeftShift", "tokenRightShift"}
    THEN <<[v1 EXCEPT !.intType = intPromote(v1.intType)],
           [v2 EXCEPT !.intType = intPromote(v2.intType)], v3>>
    ELSE IF operator.typ = "tokenQuestion"
    THEN LET t == intBalance(intPromote(v2.intType), intPromote(v3.intType))
         IN  <<v1, [v2 EXCEPT !.intType = t[1]], [v3 EXCEPT !.intType = t[2]]>>
    ELSE LET t == intBalance(intPromote(v1.intType), intPromote(v2.intType))
         IN  <<[v1 EXCEPT !.intType = t[1]], [v2 EXCEPT !.intType = t[2]], v3>>

\* Whether the conversion panics inside intBalance
ConversionPanics(operator, n, v1, v2, v3) ==
    IF operator.typ \in {"tokenNot", "tokenBoolNot", "tokenLeftShift", "tokenRightShift"}
       \/ (operator.typ \in {"tokenPlus", "tokenMinus"} /\ n = 1)
    THEN FALSE
    ELSE IF operator.typ = "tokenQuestion"
    THEN BalancePanics(intBalance(intPromote(v2.intType), intPromote(v3.intType)))
    ELSE BalancePanics(intBalance(intPromote(v1.intType), intPromote(v2.intType)))

\* case tokenDiv, case tokenMod: the magnitudes <<v1, v2>> and the inversions
DivOperands(v1, v2) ==
    LET neg1 == v1.intType.signed /\ I64Negative(AsInt(v1))
        neg2 == v2.intType.signed /\ I64Negative(AsInt(v2))
    IN  [v1 |-> IF neg1 THEN [v1 EXCEPT !.intVal = U64Neg(AsInt(v1))] ELSE v1,
         v2 |-> IF neg2 THEN [v2 EXCEPT !.intVal = U64Neg(AsInt(v2))] ELSE v2,
         neg1 |-> neg1,
         neg2 |-> neg2]

DivValue(v1, v2) ==
    LET d == DivOperands(v1, v2)
        invert == d.neg1 # d.neg2
    IN  IF AsUint64(d.v2) = Zero64
        THEN PanicValue("integer divide by zero")
        ELSE LET result == U64Div(AsUint64(d.v1), AsUint64(d.v2))
             IN  newValueIntLike(d.v1, IF invert THEN U64Neg(result) ELSE result)

\* A remainder with the sign of the quotient
ModValueSignOfQuotient(v1, v2) ==
    LET d == DivOperands(v1, v2)
        invert == d.neg1 # d.neg2
    IN  IF AsUint64(d.v2) = Zero64
        THEN PanicValue("integer divide by zero")
        ELSE LET result == U64Mod(AsUint64(d.v1), AsUint64(d.v2))
             IN  newValueIntLike(d.v1, IF invert THEN U64Neg(result) ELSE result)

ModValue(v1, v2) ==
    LET d == DivOperands(v1, v2)
        invert == d.neg1
    IN  IF AsUint64(d.v2) = Zero64
        THEN PanicValue("integer divide by zero")
        ELSE LET result == U64Mod(AsUint64(d.v1), AsUint64(d.v2))
             IN  newValueIntLike(d.v1, IF invert THEN U64Neg(result) ELSE result)

\* A < that compares unsigned whatever the type
LessValueUnsigned(v1, v2) == NewValueBool(U64Less(AsUint64(v1), AsUint64(v2)))

LessValue(v1, v2) ==
    IF v1.intType.signed
    THEN NewValueBool(I64Less(AsInt(v1), AsInt(v2)))
    ELSE NewValueBool(U64Less(AsUint64(v1), AsUint64(v2)))

LessEqualValue(v1, v2) ==
    IF v1.intType.signed
    THEN NewValueBool(~I64Less(AsInt(v2), AsInt(v1)))
    ELSE NewValueBool(~U64Less(AsUint64(v2), AsUint64(v1)))

GreaterValue(v1, v2) ==
    IF v1.intType.signed
    THEN NewValueBool(I64Less(AsInt(v2), AsInt(v1)))
    ELSE NewValueBool(U64Less(AsUint64(v2), AsUint64(v1)))

GreaterEqualValue(v1, v2) ==
    IF v1.intType.signed
    THEN NewValueBool(~I64Less(AsInt(v1), AsInt(v2)))
    ELSE NewValueBool(~U64Less(AsUint64(v1), AsUint64(v2)))

RightShiftValue(v1, v2) == newValueIntLike(v1, U64Shr(AsUint64(v1), AsUint64(v2)))

LeftShiftValue(v1, v2) == newValueIntLike(v1, U64Shl(AsUint64(v1), AsUint64(v2)))

\* An addition that keeps the 64-bit sum as it is
PlusValueUnclamped(v1, v2) == [v1 EXCEPT !.intVal = U64Add(AsUint64(v1), AsUint64(v2))]

PlusValue(v1, v2) == newValueIntLike(v1, U64Add(AsUint64(v1), AsUint64(v2)))

QuestionValue(v1, v2, v3) == IF AsBool(v1) THEN v2 ELSE v3

\* switch e.operator.typ { ... } // Operand evaluation
OperandEvaluation(operator, n, v1, v2, v3) ==
    LET t == operator.typ
    IN  CASE t = "tokenPlus" -> IF n = 1 THEN v1 ELSE PlusValue(v1, v2)
          [] t = "tokenMinus" ->
                IF n = 1 THEN newValueIntLike(v1, U64Neg(AsUint64(v1)))
                ELSE newValueIntLike(v1, U64Sub(AsUint64(v1), AsUint64(v2)))
          [] t = "tokenNot" -> newValueIntLike(v1, U64Not(AsUint64(v1)))
          [] t = "tokenBoolNot" -> NewValueBool(~AsBool(v1))
          [] t = "tokenMult" -> newValueIntLike(v1, U64Mul(AsUint64(v1), AsUint64(v2)))
          [] t = "tokenDiv" -> DivValue(v1, v2)
          [] t = "tokenMod" -> ModValue(v1, v2)
          [] t = "tokenLeftShift" -> LeftShiftValue(v1, v2)
          [] t = "tokenRightShift" -> RightShiftValue(v1, v2)
          [] t = "tokenLess" -> LessValue(v1, v2)
          [] t = "tokenLessEqual" -> LessEqualValue(v1, v2)
          [] t = "tokenGreater" -> GreaterValue(v1, v2)
          [] t = "tokenGreaterEqual" -> GreaterEqualValue(v1, v2)
          [] t = "tokenEqual" -> NewValueBool(AsUint64(v1) = AsUint64(v2))
          [] t = "tokenNotEqual" -> NewValueBool(AsUint64(v1) # AsUint64(v2))
          [] t = "tokenAnd" -> newValueIntLike(v1, U64And(AsUint64(v1), AsUint64(v2)))
          [] t = "tokenXor" -> newValueIntLike(v1, U64Xor(AsUint64(v1), AsUint64(v2)))
          [] t = "tokenOr" -> newValueIntLike(v1, U64Or(AsUint64(v1), AsUint64(v2)))
          [] t = "tokenBoolAnd" -> NewValueBool(AsBool(v1) /\ AsBool(v2))
          [] t = "tokenBoolOr" -> NewValueBool(AsBool(v1) \/ AsBool(v2))
          [] t = "tokenQuestion" -> QuestionValue(v1, v2, v3)
          [] OTHER -> NewValueError("unknown operator " \o operator.val)

\* operatorExpression.Value once the operands are evaluated and none is an
\* Error: checking, conversion, evaluation
OperatorApply(operator, n, v1, v2, v3) ==
    LET check == OperandCheck(operator, n, v1, v2)
    IN  IF check # NoError THEN check
        ELSE IF ConversionPanics(operator, n, v1, v2, v3)
        THEN PanicValue("intBalance")
        ELSE LET c == OperandConversion(operator, n, v1, v2, v3)
             IN  OperandEvaluation(operator, n, c[1], c[2], c[3])

\* ------------------------------------------------------------------------
\* Evaluation contexts, variables and functions (eventtype.go, parse.go)
\* ------------------------------------------------------------------------

\* The bytes of a field of `size` bytes, zero-extended: DecodeUint
DecodeUint(contents, size) ==
    [i \in Limbs |-> IF i <= size THEN contents[i] ELSE 0]

\* The bytes of a field of `size` bytes, sign-extended: DecodeInt
DecodeInt(contents, size) ==
    [i \in Limbs |-> IF i <= size THEN contents[i]
                     ELSE IF contents[size] >= 128 THEN 255 ELSE 0]

\* eventVariable.Get: ctx is the Event, whose field ev.fieldNum is decoded
eventVariableGet(ev, ctx) ==
    LET f == ctx[ev.fieldNum]
    IN  IF f.ftype = "char" THEN NewValueString(f.str)
        ELSE NewValueInt(IF f.signed THEN DecodeInt(f.contents, f.size)
                         ELSE DecodeUint(f.contents, f.size),
                         f.size, f.signed)

\* constantVariable.Get
constantVariableGet(v, ctx) == v.value

\* testVariable.Get
testVariableGet(ctx) == NewValueInt(One64, 4, TRUE)

\* Variable.Get(ctx) of a non-nil Variable handle
VariableGet(variable, ctx) ==
    IF variable.kind = "constantVariable" THEN constantVariableGet(variable, ctx)
    ELSE IF variable.kind = "testVariable" THEN testVariableGet(ctx)
    ELSE eventVariableGet(variable, ctx)

NilHandle == [kind |-> "nil"]

testFunction == [kind |-> "testFunction"]

\* testFunction.Get
testFunctionGet(ctx, args) == NewValueInt(U64FromNat(Len(args)), 4, TRUE)

\* Value.AsInterface, the argument handed to fmt.Sprintf: an int64 for a
\* signed integer, the clamped uint64 for an unsigned one
AsInterface(v) ==
    IF IsInt(v)
    THEN IF v.intType.signed THEN <<"int64", AsInt(v)>> ELSE <<"uint64", AsUint64(v)>>
    ELSE IF IsString(v) THEN <<"string", v.stringVal>>
    ELSE IF IsList(v) THEN <<"list", v.listVal>>
    ELSE <<"error", v.stringVal>>

\* The first Error among args[i..], or NoError
RECURSIVE FirstError(_, _)
FirstError(args, i) ==
    IF i > Len(args) THEN NoError
    ELSE IF IsError(args[i]) THEN args[i]
    ELSE FirstError(args, i + 1)

\* printfFunction.Get: the first Error argument, or the formatted string,
\* kept as the format and the arguments given to fmt.Sprintf
printfFunctionGet(pf, ctx, args) ==
    IF FirstError(args, 1) # NoError THEN FirstError(args, 1)
    ELSE [typ |-> "valueString", stringVal |-> pf.format, intVal |-> Zero64,
          intType |-> NoIntType,
          listVal |-> [i \in 1..Len(args) |-> AsInterface(args[i])]]

\* The names that kernelFunctions has
kernelFunctions ==
    {"__print_flags", "__print_symbolic", "__get_str", "__printk_pf", "__printk_pF",
     "__printk_pk"}

VARIABLE
    kallsyms    \* f.cachedKallsyms of the ftrace, and what /proc/kallsyms holds now

\* The names at the addresses in a version of /proc/kallsyms; "empty" is the
\* map that is left when the file could not be read
kallsymsOf(version) ==
    CASE version = "v1" ->
             [a \in {U64FromNat(1), U64FromNat(2)} |->
                 IF a = U64FromNat(1) THEN "do_fork" ELSE "sys_read"]
      [] version = "v2" ->
             [a \in {U64FromNat(1), U64FromNat(2)} |->
                 IF a = U64FromNat(1) THEN "sys_fork" ELSE "sys_read"]
      [] OTHER -> [a \in {} |-> ""]

\* The ftrace before the first kernelSymbol, with a version of the file
Kallsyms(cached, file) == [cachedKallsyms |-> cached, file |-> file]

\* kernelSymbol with every call reading the file again
kernelSymbolReload(f) ==
    [f EXCEPT !.cachedKallsyms = IF f.file = "unreadable" THEN "empty" ELSE f.file]

\* if f.cachedKallsyms == nil { ... }: the ftrace after kernelSymbol, which
\* reads the file on the first call only
kernelSymbolCache(f) ==
    IF f.cachedKallsyms = "nil"
    THEN [f EXCEPT !.cachedKallsyms = IF f.file = "unreadable" THEN "empty" ELSE f.file]
    ELSE f

\* f.cachedKallsyms once kernelSymbol has run: the name at an address
cachedKallsyms == kallsymsOf(kernelSymbolCache(kallsyms).cachedKallsyms)

\* ftrace.kernelSymbol
kernelSymbol(addr) == IF addr \in DOMAIN cachedKallsyms THEN cachedKallsyms[addr] ELSE ""

\* printkFunctionPointer, printkFunctionPointerOffset, printkKernelSymbol
printkFunctionPointer(ctx, args) ==
    IF Len(args) # 1 THEN NewValueError("expected 1 argument to __printk_pf")
    ELSE IF ~IsInt(args[1])
    THEN NewValueError("expected integer as first argument to __printk_pf")
    ELSE NewValueString(kernelSymbol(AsInt(args[1])))

\* e.contents, the raw record of the Event: the bytes of its fields, which
\* DecodeEvent slices out of it
RECURSIVE EventContents(_)
EventContents(ctx) == IF ctx = <<>> THEN <<>> ELSE Head(ctx).contents \o EventContents(Tail(ctx))

\* The character of a byte of a string
ByteChar(b) == CASE b = 97 -> "a" [] b = 98 -> "b" [] OTHER -> "?"

RECURSIVE ByteString(_)
\* string(bytes)
ByteString(bytes) ==
    IF bytes = <<>> THEN "" ELSE ByteChar(Head(bytes)) \o ByteString(Tail(bytes))

RECURSIVE TruncateAtZero(_)
\* s[:strings.IndexByte(s, 0)] when s has a zero byte, or s
TruncateAtZero(bytes) ==
    IF bytes = <<>> \/ Head(bytes) = 0 THEN <<>>
    ELSE <<Head(bytes)>> \o TruncateAtZero(Tail(bytes))

\* i & 0xffff
getStringOffset(i) == i[1] + 256 * i[2]

\* i >> 16 is below 2^24, and then its value
getStringLengthSmall(i) == i[6] = 0 /\ i[7] = 0 /\ i[8] = 0

getStringLength(i) == i[3] + 256 * i[4] + 65536 * i[5]

\* getString from the checks on: i >> 16 is negative exactly when i is, an
\* offset that passed the first check plus a negative length is not above
\* len(contents), and a slice that ends before it starts panics
getStringSlice(contents, offset, i) ==
    IF offset > Len(contents) - 1
    THEN NewValueError("__get_str offset " \o ToString(offset) \o " too large")
    ELSE IF ~I64Negative(i)
            /\ (~getStringLengthSmall(i) \/ offset + getStringLength(i) > Len(contents))
    THEN NewValueError("__get_str length too large")
    ELSE IF I64Negative(i) THEN PanicValue("slice bounds out of range")
    ELSE NewValueString(ByteString(TruncateAtZero(
             SubSeq(contents, offset + 1, offset + getStringLength(i)))))

\* getString
getString(ctx, args) ==
    IF Len(args) # 1 THEN NewValueError("expected 1 argument to __get_str")
    ELSE IF ~IsInt(args[1])
    THEN NewValueError("expected integer as first argument to __get_str")
    ELSE getStringSlice(EventContents(ctx), getStringOffset(AsInt(args[1])), AsInt(args[1]))

\* eventFunction{kernelFunctions[name]}
eventFunction(name) == [kind |-> "eventFunction", name |-> name]

\* eventFunction.Get, for the helpers of the pointer conversions and of the
\* strings of a record
eventFunctionGet(ef, ctx, args) ==
    IF ef.name \in {"__printk_pf", "__printk_pF", "__printk_pk"}
    THEN printkFunctionPointer(ctx, args)
    ELSE IF ef.name = "__get_str" THEN getString(ctx, args)
    ELSE NewValueError("unknown kernel function " \o ef.name)

\* Function.Get(ctx, args) of a non-nil Function handle
FunctionGet(function, ctx, args) ==
    IF function.kind = "printfFunction" THEN printfFunctionGet(function, ctx, args)
    ELSE IF function.kind = "eventFunction" THEN eventFunctionGet(function, ctx, args)
    ELSE testFunctionGet(ctx, args)

\* ------------------------------------------------------------------------
\* Expressions (expression.go)
\* ------------------------------------------------------------------------

NilExpression == [kind |-> "nil", constant |-> FALSE]

IsNilExpression(e) == e.kind = "nil"

\* The result of an evaluation: the Value and the handles that were called
Result(val, calls) == [val |-> val, calls |-> calls]

RECURSIVE Eval(_, _)

\* An operator applied without a look at the Error operands
operatorExpressionValueUnchecked(e, ctx) ==
    LET n  == Len(e.args)
        r1 == IF n >= 1 THEN Eval(e.args[1], ctx) ELSE Result(ZeroValue, <<>>)
        r2 == IF n >= 2 THEN Eval(e.args[2], ctx) ELSE Result(ZeroValue, <<>>)
        r3 == IF n >= 3 THEN Eval(e.args[3], ctx) ELSE Result(ZeroValue, <<>>)
    IN  Result(OperatorApply(e.operator, n, r1.val, r2.val, r3.val),
               r1.calls \o r2.calls \o r3.calls)

\* operatorExpression.Value: the operands are evaluated in order, each
\* Error is returned at once, then the operator is applied
operatorExpressionValue(e, ctx) ==
    LET n  == Len(e.args)
        r1 == IF n >= 1 THEN Eval(e.args[1], ctx) ELSE Result(ZeroValue, <<>>)
    IN  IF IsError(r1.val) \/ IsPanic(r1.val) THEN r1
        ELSE
        LET r2 == IF n >= 2 THEN Eval(e.args[2], ctx) ELSE Result(ZeroValue, <<>>)
            c2 == r1.calls \o r2.calls
        IN  IF IsError(r2.val) \/ IsPanic(r2.val) THEN Result(r2.val, c2)
            ELSE
            LET r3 == IF n >= 3 THEN Eval(e.args[3], ctx) ELSE Result(ZeroValue, <<>>)
                c3 == c2 \o r3.calls
            IN  IF IsError(r3.val) \/ IsPanic(r3.val) THEN Result(r3.val, c3)
                ELSE Result(OperatorApply(e.operator, n, r1.val, r2.val, r3.val), c3)

\* The values of args[i..] in order, up to and including the first Error
RECURSIVE EvalArgs(_, _, _)
EvalArgs(args, i, ctx) ==
    IF i > Len(args) THEN <<>>
    ELSE LET r == Eval(args[i], ctx)
         IN  IF IsError(r.val) \/ IsPanic(r.val) THEN <<r>>
             ELSE <<r>> \o EvalArgs(args, i + 1, ctx)

RECURSIVE ConcatCalls(_, _)
ConcatCalls(rs, i) ==
    IF i > Len(rs) THEN <<>> ELSE rs[i].calls \o ConcatCalls(rs, i + 1)

\* functionExpression.Value
functionExpressionValue(e, ctx) ==
    LET rs    == EvalArgs(e.args, 1, ctx)
        calls == ConcatCalls(rs, 1)
        last  == IF Len(rs) = 0 THEN ZeroValue ELSE rs[Len(rs)].val
    IN  IF IsError(last) \/ IsPanic(last) THEN Result(last, calls)
        ELSE IF e.function = NilHandle
        THEN Result(NewValueError("unknown kernel function " \o e.name), calls)
        ELSE Result(FunctionGet(e.function, ctx, [i \in 1..Len(rs) |-> rs[i].val]),
                    calls \o <<e.name>>)

\* variableExpression.Value
variableExpressionValue(e, ctx) ==
    IF e.variable = NilHandle
    THEN Result(NewValueError("unknown variable " \o e.name), <<>>)
    ELSE Result(VariableGet(e.variable, ctx), <<e.name>>)

\* constantExpression.Value
constantExpressionValue(e, ctx) == Result(e.val, <<>>)

\* typeExpression.Value
typeExpressionValue(e, ctx) ==
    Result(NewValueError("type expression has no value"), <<>>)

\* Value.Dump of a Value that is no integer (castExpression.Value dumps no
\* other); the elements of a list are not spelled out
ValueDump(v) ==
    IF IsError(v) THEN "value error: " \o v.stringVal
    ELSE IF IsString(v) THEN "\"" \o v.stringVal \o "\""
    ELSE "{...}"

\* castExpression.Value
castExpressionValue(e, ctx) ==
    IF IsNilExpression(e.val)
    THEN Result(NewValueError("cast expression evaluated without a value"), <<>>)
    ELSE LET r == Eval(e.val, ctx)
         IN  IF IsPanic(r.val) THEN r
             ELSE IF ~IsInt(r.val)
             THEN Result(NewValueError("cast applied to non-integer " \o ValueDump(r.val)),
                         r.calls)
             ELSE Result(newValueIntCast(r.val, e.intType), r.calls)

\* listExpression.Value: every element is evaluated, Errors included
RECURSIVE EvalAll(_, _, _)
EvalAll(vals, i, ctx) ==
    IF i > Len(vals) THEN <<>>
    ELSE <<Eval(vals[i], ctx)>> \o EvalAll(vals, i + 1, ctx)

listExpressionValue(e, ctx) ==
    LET rs == EvalAll(e.vals, 1, ctx)
    IN  IF \E i \in 1..Len(rs) : IsPanic(rs[i].val)
        THEN Result(PanicValue("panic"), ConcatCalls(rs, 1))
        ELSE Result(NewValueList([i \in 1..Len(rs) |-> rs[i].val]), ConcatCalls(rs, 1))

\* structExpression.Value
structExpressionValue(e, ctx) == Eval(e.exp, ctx)

\* Expression.Value(ctx), by the dynamic type of the expression
Eval(e, ctx) ==
    CASE e.kind = "operatorExpression" -> operatorExpressionValue(e, ctx)
      [] e.kind = "functionExpression" -> functionExpressionValue(e, ctx)
      [] e.kind = "variableExpression" -> variableExpressionValue(e, ctx)
      [] e.kind = "constantExpression" -> constantExpressionValue(e, ctx)
      [] e.kind = "typeExpression" -> typeExpressionValue(e, ctx)
      [] e.kind = "castExpression" -> castExpressionValue(e, ctx)
      [] e.kind = "listExpression" -> listExpressionValue(e, ctx)
      [] e.kind = "structExpression" -> structExpressionValue(e, ctx)
      [] OTHER -> Result(PanicValue("nil pointer dereference"), <<>>)

ExprValue(e, ctx) == Eval(e, ctx).val

\* The nil EvalContext
NilContext == <<>>

RECURSIVE kernelSymbolCalled(_, _)

\* Value(ctx) of args[i..] in order, up to the first Error, calls kernelSymbol
RECURSIVE argsCallKernelSymbol(_, _, _)
argsCallKernelSymbol(args, i, ctx) ==
    IF i > Len(args) THEN FALSE
    ELSE \/ kernelSymbolCalled(args[i], ctx)
         \/ /\ ~IsError(ExprValue(args[i], ctx))
            /\ ~IsPanic(ExprValue(args[i], ctx))
            /\ argsCallKernelSymbol(args, i + 1, ctx)

\* Value(ctx) of vals[i..] in order, Errors included, calls kernelSymbol
RECURSIVE valsCallKernelSymbol(_, _, _)
valsCallKernelSymbol(vals, i, ctx) ==
    IF i > Len(vals) THEN FALSE
    ELSE \/ kernelSymbolCalled(vals[i], ctx)
         \/ /\ ~IsPanic(ExprValue(vals[i], ctx))
            /\ valsCallKernelSymbol(vals, i + 1, ctx)

\* e.function.Get(ctx, argValues) is reached and is a helper of the pointer
\* conversions with one integer argument, which looks the address up
getCallsKernelSymbol(e, rs) ==
    /\ Len(rs) = Len(e.args)
    /\ Len(rs) = 1
    /\ IsInt(rs[1].val)
    /\ e.function.kind = "eventFunction"
    /\ e.function.name \in {"__printk_pf", "__printk_pF", "__printk_pk"}

\* e.Value(ctx) calls f.kernelSymbol
kernelSymbolCalled(e, ctx) ==
    CASE e.kind = "operatorExpression" -> argsCallKernelSymbol(e.args, 1, ctx)
      [] e.kind = "functionExpression" ->
             \/ argsCallKernelSymbol(e.args, 1, ctx)
             \/ getCallsKernelSymbol(e, EvalArgs(e.args, 1, ctx))
      [] e.kind = "castExpression" ->
             ~IsNilExpression(e.val) /\ kernelSymbolCalled(e.val, ctx)
      [] e.kind = "listExpression" -> valsCallKernelSymbol(e.vals, 1, ctx)
      [] e.kind = "structExpression" -> kernelSymbolCalled(e.exp, ctx)
      [] OTHER -> FALSE

\* The ftrace after e.Value(ctx)
kallsymsAfter(f, e, ctx) == IF kernelSymbolCalled(e, ctx) THEN kernelSymbolCache(f) ELSE f

newConstantExpression(exp, val) ==
    [kind |-> "constantExpression", constant |-> TRUE, exp |-> exp, val |-> val]

\* --- integer and string literals: a literal is its sequence of characters

\* strings.ToLower, on the characters a literal is made of
ToLowerChar(c) ==
    CASE c = "U" -> "u"
      [] c = "L" -> "l"
      [] c = "X" -> "x"
      [] c = "F" -> "f"
      [] OTHER -> c

ToLower(s) == [i \in 1..Len(s) |-> ToLowerChar(s[i])]

RECURSIVE TrimRight(_, _)
\* strings.TrimRight(s, cutset)
TrimRight(s, cutset) ==
    IF s # <<>> /\ s[Len(s)] \in cutset
    THEN TrimRight(SubSeq(s, 1, Len(s) - 1), cutset)
    ELSE s

RECURSIVE Join(_)
\* The Go string of a sequence of characters
Join(s) == IF s = <<>> THEN "" ELSE s[1] \o Join(Tail(s))

\* strconv: the value of a digit, 36 for a byte that is no digit
DigitValue(c) ==
    CASE c \in {"0", "1", "2", "3", "4", "5", "6", "7", "8", "9"} ->
            CHOOSE d \in 0..9 : ToString(d) = c
      [] c = "a" -> 10
      [] c = "f" -> 15
      [] c = "l" -> 21
      [] c = "u" -> 30
      [] c = "x" -> 33
      [] OTHER -> 36

syntaxError(s0) ==
    [ok |-> FALSE, val |-> Zero64,
     err |-> "strconv.ParseUint: parsing \"" \o Join(s0) \o "\": invalid syntax"]

rangeError(s0) ==
    [ok |-> FALSE, val |-> AllOnes64,
     err |-> "strconv.ParseUint: parsing \"" \o Join(s0) \o "\": value out of range"]

\* cutoff = maxUint64/base + 1, for the bases of a literal
Cutoff(base) ==
    CASE base = 16 -> <<0, 0, 0, 0, 0, 0, 0, 16>>
      [] base = 8 -> <<0, 0, 0, 0, 0, 0, 0, 32>>
      [] base = 10 -> <<154, 153, 153, 153, 153, 153, 153, 25>>

RECURSIVE ParseDigits(_, _, _, _, _)
\* for _, c := range []byte(s) { ... } of strconv.ParseUint: the digits s in
\* base `base`, after the value n, with at most bitSize bits
ParseDigits(s, base, bitSize, n, s0) ==
    IF s = <<>> THEN [ok |-> TRUE, val |-> n, err |-> ""]
    ELSE LET d == DigitValue(s[1])
             cutoff == Cutoff(base)
             maxVal == [i \in Limbs |-> IF i * 8 <= bitSize THEN 255 ELSE 0]
             n1 == U64Add(U64Mul(n, U64FromNat(base)), U64FromNat(d))
         IN  IF d >= base THEN syntaxError(s0)
             ELSE IF ~U64Less(n, cutoff) THEN rangeError(s0)
             ELSE IF U64Less(n1, U64Mul(n, U64FromNat(base))) \/ U64Less(maxVal, n1)
             THEN rangeError(s0)
             ELSE ParseDigits(Tail(s), base, bitSize, n1, s0)

\* strconv.ParseUint(s, 0, bitSize): 0x is hexadecimal, a leading 0 octal
ParseUint(s, bitSize) ==
    IF s = <<>> THEN syntaxError(s)
    ELSE IF s[1] = "0" /\ Len(s) >= 3 /\ s[2] = "x"
    THEN ParseDigits(SubSeq(s, 3, Len(s)), 16, bitSize, Zero64, s)
    ELSE IF s[1] = "0"
    THEN ParseDigits(Tail(s), 8, bitSize, Zero64, s)
    ELSE ParseDigits(s, 10, bitSize, Zero64, s)

\* SuffixType with the suffix l taken for a 4-byte type
SuffixTypeShortLong(suffix) ==
    CASE suffix = "" -> IntType(4, TRUE)
      [] suffix = "u" -> IntType(4, FALSE)
      [] suffix = "l" -> IntType(4, TRUE)
      [] suffix \in {"lu", "ul"} -> IntType(4, FALSE)
      [] suffix = "ll" -> IntType(8, TRUE)
      [] suffix \in {"llu", "ull"} -> IntType(8, FALSE)
      [] OTHER -> NoIntType

\* switch suffix { ... }: the type of a literal with this suffix, NoIntType
\* for the default case
SuffixType(suffix) ==
    CASE suffix = "" -> IntType(4, TRUE)
      [] suffix = "u" -> IntType(4, FALSE)
      [] suffix = "l" -> IntType(8, TRUE)
      [] suffix \in {"lu", "ul"} -> IntType(8, FALSE)
      [] suffix = "ll" -> IntType(8, TRUE)
      [] suffix \in {"llu", "ull"} -> IntType(8, FALSE)
      [] OTHER -> NoIntType

newConstantExpressionFromString(s) ==
    IF s[1] = "\""
    THEN newConstantExpression(NilExpression,
                               NewValueString(Join(SubSeq(s, 2, Len(s) - 1))))
    ELSE LET lower == ToLower(s)
             n == TrimRight(lower, {"u", "l"})
             suffix == Join(SubSeq(lower, Len(n) + 1, Len(lower)))
             t == SuffixType(suffix)
             i == ParseUint(n, t.size * 8)
         IN  IF t = NoIntType
             THEN newConstantExpression(NilExpression,
                      NewValueError("invalid integer suffix " \o suffix))
             ELSE IF ~i.ok
             THEN newConstantExpression(NilExpression,
                      NewValueError("invalid integer constant: " \o i.err))
             ELSE newConstantExpression(NilExpression, NewValueInt(i.val, t.size, t.signed))


toConstant(e) == newConstantExpression(e, ExprValue(e, NilContext))

listIsConstants(l) == \A i \in 1..Len(l) : l[i].constant

newOperatorExpression(operator, args) ==
    LET e == [kind |-> "operatorExpression", constant |-> FALSE,
              operator |-> operator, args |-> args]
    IN  IF listIsConstants(args) THEN toConstant(e) ELSE e

newVariableExpression(variable, name) ==
    [kind |-> "variableExpression", constant |-> FALSE,
     variable |-> variable, name |-> name]

newFunctionExpression(function, name, args) ==
    [kind |-> "functionExpression", constant |-> FALSE,
     function |-> function, name |-> name, args |-> args]

newTypeExpression(intType) ==
    [kind |-> "typeExpression", constant |-> FALSE, intType |-> intType]

newCastExpression(t, val) ==
    LET e == [kind |-> "castExpression", constant |-> FALSE,
              intType |-> t.intType, val |-> val]
    IN  IF val.constant THEN toConstant(e) ELSE e

newStructExpression(exp) ==
    [kind |-> "structExpression", constant |-> FALSE, exp |-> exp]

newListExpression(left, right) ==
    LET vals == (IF left.kind = "listExpression" THEN left.vals ELSE <<left>>)
                \o (IF right.kind = "listExpression" THEN right.vals ELSE <<right>>)
        e == [kind |-> "listExpression", constant |-> FALSE, vals |-> vals]
    IN  IF listIsConstants(vals) THEN toConstant(e) ELSE e

\* CallFunction, CastExpression (parse.go)
CallFunction(function, name, args) == newFunctionExpression(function, name, args)

CastExpression(val, size, signed) ==
    newCastExpression(newTypeExpression(IntType(size, signed)), val)

\* ------------------------------------------------------------------------
\* Scopes (parse.go, parser.go)
\* ------------------------------------------------------------------------

testScope == [kind |-> "testScope"]

testVariable == [kind |-> "testVariable"]

\* Scope.GetVariable
GetVariable(scope, name) == testVariable

\* Scope.GetFunction
GetFunction(scope, name) == testFunction

\* Scope.GetType
GetType(scope, name) == IF name = "t" THEN "int" ELSE ""

\* strings.Split(scopeType, " ") of the types a Scope names
Split(s) == IF s = "int" THEN <<"int">> ELSE <<s>>

\* ------------------------------------------------------------------------
\* Type keywords (value.go)
\* ------------------------------------------------------------------------

intTypeSpecifiers ==
    [k \in {"void", "char", "short", "int", "long", "signed", "unsigned", "_Bool"} |->
        CASE k \in {"signed", "unsigned"} -> 1
          [] k \in {"short", "long"} -> 2
          [] OTHER -> 3]

isTypeKeyword(k) == k \in DOMAIN intTypeSpecifiers

RECURSIVE JoinWith(_, _)
\* strings.Join(s, sep)
JoinWith(s, sep) ==
    IF s = <<>> THEN ""
    ELSE IF Len(s) = 1 THEN s[1]
    ELSE s[1] \o sep \o JoinWith(Tail(s), sep)

\* sort.Sort(canonicalIntTypeOrder{keywords})
SortKeywords(keywords) ==
    LET rank(r) == SelectSeq(keywords, LAMBDA k : intTypeSpecifiers[k] = r)
    IN  rank(1) \o rank(2) \o rank(3)

intTypes ==
    [s \in {"char", "signed char", "unsigned char", "short", "signed short",
            "short int", "signed short int", "unsigned short", "unsigned short int",
            "int", "signed", "signed int", "unsigned", "unsigned int", "long",
            "signed long", "long int", "signed long int", "unsigned long",
            "unsigned long int", "long long", "signed long long", "long long int",
            "signed long long int", "unsigned long long", "unsigned long long int"} |->
        CASE s \in {"char", "signed char"} -> intCharType
          [] s = "unsigned char" -> intUCharType
          [] s \in {"short", "signed short", "short int", "signed short int"} -> intShortType
          [] s \in {"unsigned short", "unsigned short int"} -> intUShortType
          [] s \in {"int", "signed", "signed int"} -> intIntType
          [] s \in {"unsigned", "unsigned int"} -> intUIntType
          [] s \in {"unsigned long", "unsigned long int", "unsigned long long",
                    "unsigned long long int"} -> intULongType
          [] OTHER -> intLongType]

\* keywordsToIntType: the type, or the error
keywordsToIntType(keywords) ==
    LET typeString == JoinWith(SortKeywords(keywords), " ")
    IN  IF \E i \in 1..Len(keywords) : ~isTypeKeyword(keywords[i])
        THEN [err |-> "invalid type keyword: "
                        \o (LET i == CHOOSE i \in 1..Len(keywords) :
                                        /\ ~isTypeKeyword(keywords[i])
                                        /\ \A j \in 1..(i - 1) : isTypeKeyword(keywords[j])
                            IN  keywords[i]),
              typ |-> NoIntType]
        ELSE IF typeString \in DOMAIN intTypes
        THEN [err |-> "", typ |-> intTypes[typeString]]
        ELSE [err |-> "invalid type: " \o typeString, typ |-> NoIntType]

\* ------------------------------------------------------------------------
\* Dump (expression.go, value.go)
\* ------------------------------------------------------------------------

RECURSIVE FormatUint(_)
\* strconv.FormatUint(x, 10) of a non-zero x, the empty string for zero
FormatUint(x) ==
    IF x = Zero64 THEN ""
    ELSE LET qr == DivBytes(x, 10, 8, Zero64, 0)
         IN  FormatUint(qr[1]) \o ToString(qr[2][1])

\* intType.dump
intTypeDump(i) ==
    (IF i.signed THEN "" ELSE "u") \o "int" \o ToString(i.size * 8)

\* Value.Dump of an integer
IntDump(v) ==
    "(" \o intTypeDump(v.intType) \o ")"
    \o (IF v.intType.signed
        THEN IF AsInt(v) = Zero64 THEN "0"
             ELSE IF I64Negative(AsInt(v)) THEN "-" \o FormatUint(U64Neg(AsInt(v)))
             ELSE FormatUint(AsInt(v))
        ELSE IF AsUint64(v) = Zero64 THEN "0" ELSE FormatUint(AsUint64(v)))

RECURSIVE Dump(_)
RECURSIVE DumpAll(_, _)
\* The Dumps of the expressions es[i..]
DumpAll(es, i) == IF i > Len(es) THEN <<>> ELSE <<Dump(es[i])>> \o DumpAll(es, i + 1)

\* Expression.Dump
Dump(e) ==
    CASE e.kind = "operatorExpression" ->
            IF Len(e.args) = 1
            THEN "(" \o e.operator.val \o Dump(e.args[1]) \o ")"
            ELSE IF Len(e.args) = 2
            THEN "(" \o Dump(e.args[1]) \o " " \o e.operator.val \o " "
                     \o Dump(e.args[2]) \o ")"
            ELSE "(" \o Dump(e.args[1]) \o " ? " \o Dump(e.args[2]) \o " : "
                     \o Dump(e.args[3]) \o ")"
      [] e.kind = "listExpression" -> "{" \o JoinWith(DumpAll(e.vals, 1), ", ") \o "}"
      [] e.kind = "structExpression" -> "{" \o Dump(e.exp) \o "}"
      [] e.kind = "constantExpression" ->
            IF ~IsNilExpression(e.exp) THEN Dump(e.exp)
            ELSE IF IsInt(e.val) THEN IntDump(e.val)
            ELSE ValueDump(e.val)
      [] e.kind = "variableExpression" -> e.name
      [] e.kind = "functionExpression" ->
            e.name \o "(" \o JoinWith(DumpAll(e.args, 1), ", ") \o ")"
      [] e.kind = "typeExpression" -> intTypeDump(e.intType)
      [] e.kind = "castExpression" ->
            "(" \o intTypeDump(e.intType) \o ")"
            \o (IF IsNilExpression(e.val) THEN "MISSING CAST VALUE" ELSE Dump(e.val))
      [] OTHER -> "nil"

\* ------------------------------------------------------------------------
\* Intermediate lists (intermediate.go): a list is a window of `size` slots
\* at `offset` of the backing it shares with its parents. Indices count
\* from 0, as in the code.
\* ------------------------------------------------------------------------

TokenIntermediate(t) ==
    [typ |-> "intermediateToken", token |-> t, Expression |-> NilExpression,
     placeholderType |-> "placeholderParen"]

ExpressionIntermediate(e) ==
    [typ |-> "intermediateValueExpression", token |-> nullToken, Expression |-> e,
     placeholderType |-> "placeholderParen"]

PlaceholderIntermediate(e, ptyp) ==
    [typ |-> "intermediatePlaceholder", token |-> nullToken, Expression |-> e,
     placeholderType |-> ptyp]

newIntermediateList(toks) ==
    [backing |-> [i \in 1..Len(toks) |-> TokenIntermediate(toks[i])],
     offset |-> 0, size |-> Len(toks)]

\* l.get(i)
get(l, i) == l.backing[l.offset + i + 1]

\* The list with `size` slots from `begin` replaced by one intermediate; the
\* backing shrinks and with it this list and its parents
replaceIntermediate(l, begin, size, intermediate) ==
    [l EXCEPT !.backing = SubSeq(l.backing, 1, l.offset + begin) \o <<intermediate>>
                          \o SubSeq(l.backing, l.offset + begin + size + 1,
                                    Len(l.backing)),
              !.size = @ - (size - 1)]

replace(l, begin, size, val) ==
    replaceIntermediate(l, begin, size, ExpressionIntermediate(val))

replaceWithPlaceholder(l, begin, size, val, ptyp) ==
    replaceIntermediate(l, begin, size, PlaceholderIntermediate(val, ptyp))

slice(l, begin, size) ==
    [backing |-> l.backing, offset |-> l.offset + begin,
     size |-> IF size < 0 THEN l.size - begin ELSE size]

\* The parent list after its sub-list became sub: the same backing, shorter
\* by what the sub-list replaced
afterSubList(l, sub) ==
    [l EXCEPT !.backing = sub.backing,
              !.size = @ - (Len(l.backing) - Len(sub.backing))]

MinOf(S) == CHOOSE x \in S : \A y \in S : x <= y

MaxOf(S) == CHOOSE x \in S : \A y \in S : x >= y

\* findToken, and findTokenDir left to right: the first token from `begin`
\* with a type of typs, inside the list; index -1 and the zero token if none
findToken(l, begin, typs) ==
    LET found == {i \in begin..(l.size - 1) :
                    /\ get(l, i).typ = "intermediateToken"
                    /\ get(l, i).token.typ \in typs}
    IN  IF found = {} THEN [index |-> -1, token |-> nullToken]
        ELSE [index |-> MinOf(found), token |-> get(l, MinOf(found)).token]

\* findTokenDir right to left: the search runs from `begin`, the last slot
\* when begin is -1, down to the token that opens the list
findTokenRightToLeft(l, begin, typs) ==
    LET from  == IF begin = -1 THEN l.size - 1 ELSE begin
        found == {i \in 0..from :
                    /\ get(l, i).typ = "intermediateToken"
                    /\ get(l, i).token.typ \in typs}
    IN  IF found = {} THEN [index |-> -1, token |-> nullToken]
        ELSE [index |-> MaxOf(found), token |-> get(l, MaxOf(found)).token]

\* findPlaceholderDir right to left: a placeholder found left of the list
\* has a negative index, as none has
findPlaceholderRightToLeft(l, begin, ptyp) ==
    LET from  == IF begin = -1 THEN l.size - 1 ELSE begin
        found == {i \in 0..from :
                    /\ get(l, i).typ = "intermediatePlaceholder"
                    /\ get(l, i).placeholderType = ptyp}
    IN  IF found = {} THEN [index |-> -1, Expression |-> NilExpression]
        ELSE [index |-> MaxOf(found), Expression |-> get(l, MaxOf(found)).Expression]

\* l.expression(index)
expression(l, index) ==
    IF index < 0 \/ index >= l.size THEN NilExpression
    ELSE IF get(l, index).typ # "intermediateValueExpression" THEN NilExpression
    ELSE get(l, index).Expression

\* l.token(index)
token(l, index) ==
    IF index < 0 \/ index >= l.size THEN nullToken
    ELSE IF get(l, index).typ # "intermediateToken" THEN nullToken
    ELSE get(l, index).token

\* ------------------------------------------------------------------------
\* The parser (parser.go): each pass takes a list and gives the list it
\* leaves, or the error it returns
\* ------------------------------------------------------------------------

Parsed(l) == [err |-> "", l |-> l]

ParseError(msg) == [err |-> msg, l |-> newIntermediateList(<<>>)]

unaryOperators == {"tokenPlus", "tokenMinus", "tokenNot", "tokenBoolNot"}

\* binaryOperatorPrecdence with the levels of * / % and of + - in each
\* other's place
binaryOperatorPrecdenceAdditiveFirst ==
    << {"tokenPlus", "tokenMinus"},
       {"tokenMult", "tokenDiv", "tokenMod"},
       {"tokenLeftShift", "tokenRightShift"},
       {"tokenLess", "tokenLessEqual", "tokenGreater", "tokenGreaterEqual"},
       {"tokenEqual", "tokenNotEqual"},
       {"tokenAnd"},
       {"tokenXor"},
       {"tokenOr"},
       {"tokenBoolAnd"},
       {"tokenBoolOr"} >>

\* The levels of binary operators, all left to right
binaryOperatorPrecdence ==
    << {"tokenMult", "tokenDiv", "tokenMod"},
       {"tokenPlus", "tokenMinus"},
       {"tokenLeftShift", "tokenRightShift"},
       {"tokenLess", "tokenLessEqual", "tokenGreater", "tokenGreaterEqual"},
       {"tokenEqual", "tokenNotEqual"},
       {"tokenAnd"},
       {"tokenXor"},
       {"tokenOr"},
       {"tokenBoolAnd"},
       {"tokenBoolOr"} >>

\* ------------------------------------------------------------------------
\* The lexer (lex.go): an input is its sequence of characters, a position
\* counts the characters before it, as in the code
\* ------------------------------------------------------------------------

eof == "eof"

\* l.peek() at the position pos
peek(input, pos) == IF pos >= Len(input) THEN eof ELSE input[pos + 1]

isSpace(c) == c \in {" ", "\t", "\n"}

isAlpha(c) ==
    c \in {"a", "b", "c", "d", "e", "f", "g", "h", "i", "j", "k", "l", "m", "n", "o", "p",
           "q", "r", "s", "t", "u", "v", "w", "x", "y", "z", "A", "B", "C", "D", "E", "F",
           "G", "H", "I", "J", "K", "L", "M", "N", "O", "P", "Q", "R", "S", "T", "U", "V",
           "W", "X", "Y", "Z"}

isNumber(c) == c \in {"0", "1", "2", "3", "4", "5", "6", "7", "8", "9"}

isSymbolStartValid(c) == isAlpha(c) \/ c = "_"

isSymbolValid(c) == isSymbolStartValid(c) \/ isNumber(c)

RECURSIVE trimLeft(_, _)
\* l.trimLeft(): the position of the first character from pos on that is no
\* space
trimLeft(input, pos) ==
    IF isSpace(peek(input, pos)) THEN trimLeft(input, pos + 1) ELSE pos

\* l.emit(t): the token of the characters from start up to pos
emit(input, t, start, pos) == Token(t, Join(SubSeq(input, start + 1, pos)))

\* l.error(e), at the position pos
lexerError(e, pos) ==
    Token("tokenError", "error " \o e \o " at " \o ToString(pos) \o "\n")

\* What a state of the lexer gives: the tokens it emitted, the position it
\* left, and whether the lexer stops
Lexed(toks, pos, stop) == [toks |-> toks, pos |-> pos, stop |-> stop]

RECURSIVE stringEnd(_, _)
\* for { switch l.next() ... } of lexString, from the position pos: the
\* position after the closing quote, or -1 - pos for the position pos at
\* which the string is found unterminated
stringEnd(input, pos) ==
    LET c == peek(input, pos)
    IN  IF c = eof THEN -1 - (pos + 1)
        ELSE IF c = "\"" THEN pos + 1
        ELSE IF c = "\\"
        THEN IF peek(input, pos + 1) = eof THEN -1 - (pos + 2)
             ELSE stringEnd(input, pos + 2)
        ELSE stringEnd(input, pos + 1)

\* lexString: parse a string starting with a quote at the position start
lexString(input, start) ==
    LET end == stringEnd(input, start + 1)
    IN  IF end < 0 THEN Lexed(<<lexerError("unterminated string", -1 - end)>>, -1 - end, TRUE)
        ELSE Lexed(<<emit(input, "tokenString", start, end)>>, end, FALSE)

RECURSIVE symbolEnd(_, _)
\* for { switch c := l.next() ... } of lexSymbol: the position after the
\* symbol
symbolEnd(input, pos) ==
    LET c == peek(input, pos)
    IN  IF isSymbolValid(c) THEN symbolEnd(input, pos + 1)
        ELSE IF c = "-" /\ peek(input, pos + 1) = ">" THEN symbolEnd(input, pos + 2)
        ELSE pos

lexSymbol(input, start) ==
    Lexed(<<emit(input, "tokenSymbol", start, symbolEnd(input, start))>>,
          symbolEnd(input, start), FALSE)

RECURSIVE numberEnd(_, _)
numberEnd(input, pos) ==
    IF isSymbolValid(peek(input, pos)) THEN numberEnd(input, pos + 1) ELSE pos

lexNumber(input, start) ==
    Lexed(<<emit(input, "tokenNumber", start, numberEnd(input, start))>>,
          numberEnd(input, start), FALSE)

RECURSIVE punctuationEnd(_, _, _)
\* for { ns := s + string(l.peek()) ... } of lexPunctuation: the position
\* after the longest text from s on that stringToToken has at each step
punctuationEnd(input, sv, pos) ==
    IF peek(input, pos) # eof /\ (sv \o peek(input, pos)) \in DOMAIN stringToToken
    THEN punctuationEnd(input, sv \o peek(input, pos), pos + 1)
    ELSE pos

\* A lexPunctuation that returns lexNone after l.error
lexPunctuationOn(input, start) ==
    LET end == punctuationEnd(input, input[start + 1], start + 1)
        sv == Join(SubSeq(input, start + 1, end))
    IN  IF sv \notin DOMAIN stringToToken
        THEN Lexed(<<lexerError("unknown token '" \o sv \o "'", end)>>, end, FALSE)
        ELSE Lexed(<<emit(input, stringToToken[sv], start, end)>>, end, FALSE)

lexPunctuation(input, start) ==
    LET end == punctuationEnd(input, input[start + 1], start + 1)
        sv == Join(SubSeq(input, start + 1, end))
    IN  IF sv \notin DOMAIN stringToToken
        THEN Lexed(<<lexerError("unknown token '" \o sv \o "'", end)>>, end, TRUE)
        ELSE Lexed(<<emit(input, stringToToken[sv], start, end)>>, end, FALSE)

\* lexNone at the position start, after the spaces: the state that the
\* character there selects, run to the token it emits
lexNone(input, start) ==
    LET c == peek(input, start)
    IN  IF c = eof THEN Lexed(<<>>, start, TRUE)
        ELSE IF c = "\"" THEN lexString(input, start)
        ELSE IF isNumber(c) THEN lexNumber(input, start)
        ELSE IF isSymbolStartValid(c) THEN lexSymbol(input, start)
        ELSE lexPunctuation(input, start)

RECURSIVE run(_, _)
RECURSIVE runAfter(_, _)
\* The tokens after the ones that the state r emitted
runAfter(input, r) == IF r.stop THEN r.toks ELSE r.toks \o run(input, r.pos)

\* l.run(): the tokens sent on l.tokens from the position pos on
run(input, pos) == runAfter(input, lexNone(input, trimLeft(input, pos)))

\* NewLexer(input) and l.allTokens()
allTokens(input) == run(input, 0)

\* The characters that the input texts of the lexer are made of
LexChars == {"a", "1", " ", "+", "=", "(", "\"", "\\", "@"}

InputTexts == UNION {[1..n -> LexChars] : n \in 0..MaxInput}

\* The texts of the literal tokens of the input texts
LiteralTexts == {s \in InputTexts \ {<<>>} : isNumber(s[1]) \/ s[1] = "\""}

LiteralText == [s \in LiteralTexts |-> Join(s)]

\* The characters of the value of a literal token
Chars(val) ==
    CASE val = "0xff" -> <<"0", "x", "f", "f">>
      [] val = "1UL" -> <<"1", "U", "L">>
      [] \E s \in LiteralTexts : LiteralText[s] = val ->
            CHOOSE s \in LiteralTexts : LiteralText[s] = val
      [] OTHER -> <<val>>

RECURSIVE literalPass(_)
\* replace all literal tokens with constantExpressions
literalPass(l) ==
    LET f == findToken(l, 0, {"tokenNumber", "tokenString"})
    IN  IF f.index < 0 THEN l
        ELSE literalPass(replace(l, f.index, 1, newConstantExpressionFromString(Chars(f.token.val))))

RECURSIVE typeKeywordsFrom(_, _)
\* The type keywords that stand in a row from slot i
typeKeywordsFrom(l, i) ==
    LET t == token(l, i)
    IN  IF t.typ = "tokenSymbol" /\ isTypeKeyword(t.val)
        THEN <<t.val>> \o typeKeywordsFrom(l, i + 1)
        ELSE <<>>

RECURSIVE symbolPass(_, _)
\* replace all symbol tokens variableExpression or typeExpression
symbolPass(l, scope) ==
    LET f == findToken(l, 0, {"tokenSymbol"})
        i == f.index
        keywords == typeKeywordsFrom(l, i)
        scopeType == GetType(scope, f.token.val)
        typeKeywords == IF keywords = <<>> /\ scopeType # "" THEN Split(scopeType)
                        ELSE keywords
        tokensUsed == IF keywords = <<>> THEN 1 ELSE Len(keywords)
        t == keywordsToIntType(typeKeywords)
        v == GetVariable(scope, f.token.val)
        ve == newVariableExpression(v, f.token.val)
    IN  IF i < 0 THEN Parsed(l)
        ELSE IF typeKeywords # <<>>
        THEN IF t.err # "" THEN ParseError(t.err)
             ELSE symbolPass(replace(l, i, tokensUsed, newTypeExpression(t.typ)), scope)
        ELSE IF v.kind = "constantVariable"
        THEN symbolPass(replace(l, i, 1, newConstantExpression(ve, v.value)), scope)
        ELSE symbolPass(replace(l, i, 1, ve), scope)

RECURSIVE unaryPass(_, _)
\* handle unary operators, casts: the loop, entered with i
unaryPass(l, begin) ==
    LET f == findTokenRightToLeft(l, begin, unaryOperators)
        i == f.index
        t == f.token
        p == findPlaceholderRightToLeft(l, i, "placeholderCast")
        j == p.index
    IN  IF i < 0 /\ j < 0 THEN Parsed(l)
        ELSE IF j > i
        THEN IF IsNilExpression(expression(l, j + 1))
             THEN ParseError("expected expression to the right of cast ("
                             \o Dump(p.Expression) \o ")")
             ELSE unaryPass(replace(l, j, 2,
                                newCastExpression(p.Expression, expression(l, j + 1))), j)
        ELSE IF IsNilExpression(expression(l, i + 1))
        THEN ParseError("expected expression to the right of " \o t.val)
        ELSE IF t.typ \in {"tokenPlus", "tokenMinus"}
                /\ ~IsNilExpression(expression(l, i - 1))
        THEN unaryPass(l, i - 1)
        ELSE unaryPass(replace(l, i, 2,
                           newOperatorExpression(t, <<expression(l, i + 1)>>)), i)

RECURSIVE binaryLevelPass(_, _)
\* The binary operators of one level, left to right
binaryLevelPass(l, typs) ==
    LET f == findToken(l, 0, typs)
        i == f.index
        before == expression(l, i - 1)
        after == expression(l, i + 1)
    IN  IF i < 0 THEN Parsed(l)
        ELSE IF IsNilExpression(before)
        THEN ParseError("expected expression to the left of " \o f.token.val)
        ELSE IF IsNilExpression(after)
        THEN ParseError("expected expression to the right of " \o f.token.val)
        ELSE binaryLevelPass(replace(l, i - 1, 3,
                                 newOperatorExpression(f.token, <<before, after>>)), typs)

RECURSIVE binaryPass(_, _)
\* handle binary operators: the levels from `level` on
binaryPass(l, level) ==
    IF level > Len(binaryOperatorPrecdence) THEN Parsed(l)
    ELSE LET r == binaryLevelPass(l, binaryOperatorPrecdence[level])
         IN  IF r.err # "" THEN r ELSE binaryPass(r.l, level + 1)

RECURSIVE trinaryPass(_)
\* handle trinary operators
trinaryPass(l) ==
    LET f == findTokenRightToLeft(l, -1, {"tokenQuestion"})
        i == f.index
        left == expression(l, i - 1)
        middle == expression(l, i + 1)
        right == expression(l, i + 3)
    IN  IF i < 0 THEN Parsed(l)
        ELSE IF IsNilExpression(left) THEN ParseError("expected expression before '?'")
        ELSE IF IsNilExpression(middle) THEN ParseError("expected expression after '?'")
        ELSE IF token(l, i + 2).typ # "tokenColon" THEN ParseError("expected ':' after '?'")
        ELSE IF IsNilExpression(right) THEN ParseError("expected expression after ':'")
        ELSE trinaryPass(replace(l, i - 1, 5,
                             newOperatorExpression(f.token, <<left, middle, right>>)))

RECURSIVE commaPass(_)
\* handle commas
commaPass(l) ==
    LET f == findToken(l, 0, {"tokenComma"})
        i == f.index
        before == expression(l, i - 1)
        after == expression(l, i + 1)
    IN  IF i < 0 THEN Parsed(l)
        ELSE IF IsNilExpression(before)
        THEN ParseError("expected expression to the left of " \o f.token.val)
        ELSE IF IsNilExpression(after)
        THEN ParseError("expected expression to the right of " \o f.token.val)
        ELSE commaPass(replace(l, i - 1, 3, newListExpression(before, after)))

RECURSIVE dumpFrom(_, _)
\* The dumps of the slots of l from slot i on; the quote around the value of
\* a token stands for the backquote of the source
dumpFrom(l, i) ==
    IF i >= l.size THEN <<>>
    ELSE LET m == get(l, i)
             d == CASE m.typ = "intermediateToken" -> "'" \o m.token.val \o "'"
                    [] m.typ = "intermediateValueExpression" -> Dump(m.Expression)
                    [] OTHER -> "<<<(" \o Dump(m.Expression) \o ")>>>"
         IN  <<d>> \o dumpFrom(l, i + 1)

\* intermediateList.dump
intermediateListDump(l) == JoinWith(dumpFrom(l, 0), " ")

\* sanity check: the list that the passes leave has no more than one slot
sanityCheck(c) ==
    IF c.err # "" THEN c
    ELSE IF c.l.size > 1
    THEN ParseError("failed to parse expression " \o intermediateListDump(c.l))
    ELSE c

\* handle commas, after the trinary operators
commaStage(t) == IF t.err # "" THEN t ELSE sanityCheck(commaPass(t.l))

\* handle trinary operators, after the binary operators
trinaryStage(b) == IF b.err # "" THEN b ELSE commaStage(trinaryPass(b.l))

\* handle binary operators, after the unary operators
binaryStage(u) == IF u.err # "" THEN u ELSE trinaryStage(binaryPass(u.l, 1))

\* handle unary operators and casts, after the symbols
unaryStage(s) == IF s.err # "" THEN s ELSE binaryStage(unaryPass(s.l, -1))

\* The passes that follow the parentheses, and the sanity check
operatorPasses(l, scope) == unaryStage(symbolPass(literalPass(l), scope))

RECURSIVE parseSubExpression(_, _, _)
RECURSIVE parenPass(_, _, _)
RECURSIVE closeParen(_, _, _, _, _, _)
RECURSIVE afterParen(_, _, _, _, _, _)

\* The opening token t at slot i of l1 and the subSize slots that the
\* sub-expression left after it: the closing token, then a struct, a cast, a
\* function call or a parenthesized expression
closeParen(l1, i, t, subSize, endToken, scope) ==
    LET subEndToken == IF t.typ = "tokenLeftParen" THEN "tokenRightParen"
                       ELSE "tokenRightBracket"
        e == expression(l1, i + 1)
        ft == token(l1, i - 1)
        args == IF subSize = 0 THEN <<>>
                ELSE IF e.kind = "listExpression" THEN e.vals
                ELSE <<e>>
    IN  IF token(l1, i + subSize + 1).typ # subEndToken
        THEN ParseError("missing closing token for " \o t.val)
        ELSE IF t.typ = "tokenLeftBracket"
        THEN parenPass(replace(l1, i, subSize + 2, newStructExpression(e)), endToken, scope)
        ELSE IF e.kind = "typeExpression"
        THEN parenPass(replaceWithPlaceholder(l1, i, 3, e, "placeholderCast"),
                       endToken, scope)
        ELSE IF ft.typ = "tokenSymbol"
        THEN parenPass(replace(l1, i - 1, subSize + 3,
                           newFunctionExpression(GetFunction(scope, ft.val), ft.val, args)),
                       endToken, scope)
        ELSE IF subSize = 1
        THEN parenPass(replace(l1, i, subSize + 2, e), endToken, scope)
        ELSE ParseError("empty parens without function call?")

\* What parseSubExpression returned for the slots after the opening token
afterParen(l, i, t, sub, endToken, scope) ==
    IF sub.err # "" THEN sub
    ELSE closeParen(afterSubList(l, sub.l), i, t, sub.l.size, endToken, scope)

\* find first ( or { or endToken, call parseSubExpression if necessary, repeat
parenPass(l, endToken, scope) ==
    LET f == findToken(l, 0, {"tokenLeftBracket", "tokenLeftParen", endToken})
    IN  IF f.token.typ = "tokenNone" THEN Parsed(l)
        ELSE IF f.token.typ = endToken THEN Parsed(slice(l, 0, f.index))
        ELSE afterParen(l, f.index, f.token,
                        parseSubExpression(slice(l, f.index + 1, -1),
                            IF f.token.typ = "tokenLeftParen" THEN "tokenRightParen"
                            ELSE "tokenRightBracket",
                            scope),
                        endToken, scope)

\* The passes after the parentheses, on what the parentheses pass left
afterParens(p, scope) == IF p.err # "" THEN p ELSE operatorPasses(p.l, scope)

\* parser.parseSubExpression: the list it leaves has 0 or 1 slots
parseSubExpression(l, endToken, scope) == afterParens(parenPass(l, endToken, scope), scope)

\* The error and the Expression of what parseSubExpression left
parsedExpression(r) ==
    IF r.err # "" THEN [err |-> r.err, e |-> NilExpression]
    ELSE IF r.l.size # 1 THEN [err |-> "", e |-> NilExpression]
    ELSE [err |-> "", e |-> expression(r.l, 0)]

\* parser.parseExpression: the error and the Expression
parseExpression(toks, scope) ==
    parsedExpression(parseSubExpression(newIntermediateList(toks), "tokenNone", scope))

\* The error and the expressions of what parseExpression returned: the
\* values of a list, or the one expression
parsedExpressions(r) ==
    IF r.err # "" THEN [err |-> r.err, expressions |-> <<>>]
    ELSE IF r.e.kind = "listExpression"
    THEN [err |-> "", expressions |-> r.e.vals]
    ELSE [err |-> "", expressions |-> <<r.e>>]

\* Parse (parse.go), from the tokens of the input on: the error and the
\* expressions
Parse(toks, scope) == parsedExpressions(parseExpression(toks, scope))

\* ------------------------------------------------------------------------
\* The evaluator as a state machine: an expression over the fields of an
\* event is built, then evaluated in the context of an event
\* ------------------------------------------------------------------------

VARIABLES
    literal,    \* the characters of a literal to parse, or <<>>
    expr,       \* the Expression under evaluation, NilExpression before it is built
    ctx,        \* the EvalContext: the fields of the Event
    result,     \* NotEvaluated, or the Result of expr.Value(ctx)
    again,      \* NotEvaluated, or the Result of the next expr.Value(ctx)
    input,      \* the characters of the input of Parse, <<>> for none
    tokens,     \* the tokens of the input of Parse
    parsed,     \* NotParsed, or what Parse returned: the error and the expressions
    lexer,      \* the goroutine of l.run(): its state, l.pos, l.start, l.tokens
    printfArgs, \* the arguments of NewPrintfFunction: the format, then its arguments
    callback,   \* the conversionCallback given to NewPrintfFunction
    printfErr,  \* NotCalled, or the error that NewPrintfFunction returned
    done,       \* doneCh is closed
    pagesRead,  \* for each cpu, how many pages Read gave from its raw pipe
    readAtDone, \* for each cpu, pagesRead when doneCh was closed
    reader,     \* for each cpu, the goroutine of getRawFtraceChan
    decoder,    \* for each cpu, the goroutine of getEvents
    capture,    \* Capture: where it is, its select cases, the events it received
    delivered,  \* for each cpu, the events that the callback was called with
    running,    \* how many calls of the callback have not returned
    rawPages,   \* the pages that the kernel wrote to the raw pipe of a cpu
    pageEvents, \* for each page decoded, what decodePage returned
    fileCall,   \* the operation on the file provider or the event types, and its path
    fileResult, \* FileNotCalled, or the error of the operation and the file it accessed
    eventTypes  \* f.eventTypes: for each id registered, the name of its event type

evalVars == <<literal, expr, ctx, result, again, kallsyms>>

parseVars == <<input, tokens, parsed, lexer>>

printfVars == <<printfArgs, callback, printfErr>>

captureVars == <<done, pagesRead, readAtDone, reader, decoder, capture, delivered, running>>

\* The variables of the ftrace package
pageVars == <<rawPages, pageEvents>>

fileVars == <<fileCall, fileResult, eventTypes>>

ftraceVars == <<captureVars, pageVars, fileVars>>

vars == <<evalVars, parseVars, printfVars, ftraceVars>>

NotCalled == "not called"

NotParsed == [err |-> "not parsed", expressions |-> <<>>]

NotEvaluated == Result(NoError, <<>>)

\* The variables of the parser and of the printf adapter before any use
\* The ftrace before the first kernelSymbol, /proc/kallsyms being readable,
\* and no second evaluation
KallsymsOff == kallsyms = Kallsyms("nil", "v1") /\ again = NotEvaluated

\* The lexer: the stateFn that l.run() calls next ("nil" when its loop has
\* ended), l.pos, l.start, the token that a send on l.tokens holds until it
\* is received, and whether l.tokens is closed
Lexer(state, pos, start, sending, closed) ==
    [state |-> state, pos |-> pos, start |-> start, sending |-> sending, closed |-> closed]

\* No lexer was made
LexerOff == Lexer("off", 0, 0, <<>>, FALSE)

ParseOff == input = <<>> /\ tokens = <<>> /\ parsed = NotParsed /\ lexer = LexerOff

PrintfOff == printfArgs = <<>> /\ callback = "nil" /\ printfErr = NotCalled

\* The variables of the capture before PrepareCapture
CaptureOff ==
    /\ done = FALSE
    /\ pagesRead = <<>>
    /\ readAtDone = <<>>
    /\ reader = <<>>
    /\ decoder = <<>>
    /\ capture = [pc |-> "not called", selectCases |-> {}, chosen |-> 0, events |-> <<>>]
    /\ delivered = <<>>
    /\ running = 0

PagesOff == rawPages = <<>> /\ pageEvents = <<>>

\* No operation on a file was called
FileNotCalled == [err |-> NotCalled, accessed |-> ""]

\* make(map[int]*EventType)
NoEventTypes == <<>>

FilesOff == fileCall = <<>> /\ fileResult = FileNotCalled /\ eventTypes = NoEventTypes

FtraceOff == CaptureOff /\ PagesOff /\ FilesOff

\* The 64-bit two's complement pattern of a small integer k
SmallPattern(k) == IF k >= 0 THEN U64FromNat(k) ELSE U64Neg(U64FromNat(-k))

\* The largest and the smallest signed value of `size` bytes
MaxSignedPattern(size) ==
    [i \in Limbs |-> IF i < size THEN 255 ELSE IF i = size THEN 127 ELSE 0]

MinSignedPattern(size) ==
    [i \in Limbs |-> IF i < size THEN 0 ELSE IF i = size THEN 128 ELSE 0]

Patterns(size) ==
    {SmallPattern(k) : k \in (-MaxSmall..MaxSmall) \cup {8, -8}}
        \cup {MaxSignedPattern(size), MinSignedPattern(size)}

IntField(size, signed, pattern) ==
    [ftype |-> "int", size |-> size, signed |-> signed,
     contents |-> SubSeq(pattern, 1, size), str |-> ""]

CharField(s) ==
    [ftype |-> "char", size |-> 0, signed |-> FALSE, contents |-> <<>>, str |-> s]

IntFields ==
    UNION {{IntField(t.size, t.signed, p) : p \in Patterns(t.size)} : t \in IntTypes}

DefaultField == IntField(4, TRUE, Zero64)

eventVariable(fieldNum) == [kind |-> "eventVariable", fieldNum |-> fieldNum]

VarA == newVariableExpression(eventVariable(1), "a")

VarB == newVariableExpression(eventVariable(2), "b")

VarC == newVariableExpression(eventVariable(3), "c")

UnaryOps == {"+", "-", "!", "~"}

BinaryOps ==
    {"*", "/", "%", "+", "-", "<<", ">>", "<", "<=", ">", ">=", "==", "!=",
     "&", "^", "|", "&&", "||"}

UnknownX == newVariableExpression(NilHandle, "x")

UnknownY == newVariableExpression(NilHandle, "y")

UnknownZ == newVariableExpression(NilHandle, "z")

\* Expressions over the fields a, b, c of the event, by the number of
\* fields they read
UnaryShapes == {newOperatorExpression(OpToken(o), <<VarA>>) : o \in UnaryOps}

CastShapes == {CastExpression(VarA, t.size, t.signed) : t \in IntTypes}

BinaryShapes == {newOperatorExpression(OpToken(o), <<VarA, VarB>>) : o \in BinaryOps}

TernaryShapes == {newOperatorExpression(OpToken("?"), <<VarA, VarB, VarC>>)}

printfFunction(format) == [kind |-> "printfFunction", format |-> format]

FunctionHandles == {testFunction, printfFunction("%d %d"), NilHandle}

\* Expressions with an operand that evaluates to an Error (an unknown
\* variable), or that call a Function
ErrorShapes ==
    {newOperatorExpression(OpToken(o), <<UnknownX>>) : o \in UnaryOps}
    \cup {newOperatorExpression(OpToken(o), args) :
            o \in BinaryOps,
            args \in {<<UnknownX, VarB>>, <<VarA, UnknownY>>, <<UnknownX, UnknownY>>}}
    \cup {newOperatorExpression(OpToken("?"), <<a, b, c>>) :
            a \in {VarA, UnknownX},
            b \in {VarB, UnknownY, CallFunction(testFunction, "f", <<VarB>>)},
            c \in {VarC, UnknownZ, CallFunction(testFunction, "g", <<VarC>>)}}
    \cup {CallFunction(f, "f", args) :
            f \in FunctionHandles,
            args \in {<<>>, <<VarA>>, <<UnknownX>>, <<VarA, VarB>>, <<UnknownX, VarB>>,
                      <<VarA, UnknownY>>, <<UnknownX, UnknownY>>,
                      <<CastExpression(UnknownX, 4, TRUE), VarB>>}}
    \cup {CastExpression(UnknownX, 4, TRUE)}

AllFields == IntFields \cup {CharField("R")}

\* The fields of the condition and of the arms of a ternary
CondFields ==
    {IntField(4, TRUE, Zero64), IntField(4, TRUE, One64),
     IntField(1, FALSE, AllOnes64), IntField(8, FALSE, MinSignedPattern(8)),
     CharField("R")}

ArmFields ==
    UNION {{IntField(t.size, t.signed, p) :
                p \in {Zero64, One64, AllOnes64, MinSignedPattern(t.size)}} :
           t \in IntTypes}
    \cup {CharField("R")}

Lit(s) == newConstantExpressionFromString(s)

Unary(o, a) == newOperatorExpression(OpToken(o), <<a>>)

Binary(o, a, b) == newOperatorExpression(OpToken(o), <<a, b>>)

Ternary(a, b, c) == newOperatorExpression(OpToken("?"), <<a, b, c>>)

Lit0xffffffff == Lit(<<"0", "x", "f", "f", "f", "f", "f", "f", "f", "f">>)

\* -1u==0xffffffff
EqMinusOneU == Binary("==", Unary("-", Lit(<<"1", "u">>)), Lit0xffffffff)

\* ~0==0xffffffff
EqNotZero == Binary("==", Unary("~", Lit(<<"0">>)), Lit0xffffffff)

\* -1<0
LessMinusOne == Binary("<", Unary("-", Lit(<<"1">>)), Lit(<<"0">>))

\* 0<=-1
LessEqualMinusOne == Binary("<=", Lit(<<"0">>), Unary("-", Lit(<<"1">>)))

\* 1 ? -1 : 0u
TernaryMinusOne == Ternary(Lit(<<"1">>), Unary("-", Lit(<<"1">>)), Lit(<<"0", "u">>))

\* Expressions over literals; newOperatorExpression folds them to constants
ConstantShapes ==
    {EqMinusOneU, EqNotZero, LessMinusOne, LessEqualMinusOne, TernaryMinusOne,
     Binary("<", Lit0xffffffff, Lit(<<"0">>)),
     Binary(">>", Unary("-", Lit(<<"8">>)), Lit(<<"1">>)),
     Binary("/", Lit(<<"8">>), Lit(<<"0">>))}

\* An expression built through the API, with the fields it reads
InitExpression ==
    \/ /\ expr \in ConstantShapes
       /\ ctx = <<DefaultField, DefaultField, DefaultField>>
    \/ /\ expr \in UnaryShapes \cup CastShapes
       /\ ctx \in {<<a, DefaultField, DefaultField>> : a \in AllFields}
    \/ /\ expr \in BinaryShapes
       /\ ctx \in {<<a, b, DefaultField>> : a \in AllFields, b \in AllFields}
    \/ /\ expr \in TernaryShapes
       /\ ctx \in {<<a, b, c>> : a \in CondFields, b \in ArmFields, c \in ArmFields}
    \/ /\ expr \in ErrorShapes
       /\ ctx \in {<<a, b, c>> : a \in {IntField(4, TRUE, Zero64), IntField(4, TRUE, One64)},
                                 b \in {IntField(4, TRUE, One64), CharField("R")},
                                 c \in {IntField(1, FALSE, AllOnes64), CharField("R")}}

\* The digits of a literal: a digit d1 and then k times the digit d2
RECURSIVE Repeat(_, _)
Repeat(c, k) == IF k = 0 THEN <<>> ELSE <<c>> \o Repeat(c, k - 1)

LiteralPrefixes == {<<>>, <<"0">>, <<"0", "x">>, <<"0", "X">>}

LiteralSuffixes ==
    {<<>>, <<"u">>, <<"l">>, <<"u", "l">>, <<"l", "u">>, <<"l", "l">>,
     <<"u", "l", "l">>, <<"l", "l", "u">>, <<"U">>, <<"L">>, <<"U", "L">>,
     <<"L", "L", "U">>, <<"l", "L">>, <<"l", "u", "l">>, <<"u", "u">>,
     <<"l", "l", "l">>, <<"u", "l", "u">>}

Literals ==
    {prefix \o <<d1>> \o Repeat(d2, k) \o suffix :
        prefix \in LiteralPrefixes, d1 \in {"1", "7", "8", "f"}, d2 \in {"0", "7", "f", "F"},
        k \in 0..MaxDigits, suffix \in LiteralSuffixes}
    \cup {<<"0">>, <<"0", "x">>, <<"\"", "a", "\"">>, <<"\"", "\"">>}

Init ==
    /\ FtraceOff
    /\ KallsymsOff
    /\ ParseOff
    /\ PrintfOff
    /\ result = NotEvaluated
    /\ \/ /\ literal \in Literals
          /\ expr = NilExpression
          /\ ctx = <<DefaultField, DefaultField, DefaultField>>
       \/ /\ literal = <<>>
          /\ InitExpression

\* The literal pass of the parser on a literal token
ParseLiteral ==
    /\ literal # <<>>
    /\ expr = NilExpression
    /\ expr' = newConstantExpressionFromString(literal)
    /\ UNCHANGED <<literal, ctx, result, again, kallsyms, parseVars, printfVars, ftraceVars>>

\* expr.Value(ctx)
Evaluate ==
    /\ expr # NilExpression
    /\ result = NotEvaluated
    /\ result' = Eval(expr, ctx)
    /\ kallsyms' = kallsymsAfter(kallsyms, expr, ctx)
    /\ UNCHANGED <<literal, expr, ctx, again, parseVars, printfVars, ftraceVars>>

Next == ParseLiteral \/ Evaluate

Spec == Init /\ [][Next]_vars

\* ------------------------------------------------------------------------
\* The printf adapter and the extension hook of the event types
\* (eventtype.go): a format is its sequence of characters
\* ------------------------------------------------------------------------

conversionSpecifiers == {"c", "d", "i", "o", "p", "s", "u", "x", "%"}

formatModifiers == {"0", "1", "2", "3", "4", "5", "6", "7", "8", "9", "-", "#", ".", "*"}

trimmedConversionModfiers == {"h", "l", "L", "z"}

validModifiers == formatModifiers \cup trimmedConversionModfiers

\* strings.IndexAny(s, chars), counted from 0, -1 for none
IndexAny(s, chars) ==
    IF \E i \in 1..Len(s) : s[i] \in chars
    THEN (CHOOSE i \in 1..Len(s) : s[i] \in chars /\ \A j \in 1..(i - 1) : s[j] \notin chars) - 1
    ELSE -1

RECURSIVE TrimLeft(_, _)
\* strings.TrimLeft(s, cutset)
TrimLeft(s, cutset) ==
    IF s # <<>> /\ s[1] \in cutset THEN TrimLeft(Tail(s), cutset) ELSE s

\* strings.Contains(s, sub)
Contains(s, sub) ==
    \E i \in 0..(Len(s) - Len(sub)) : SubSeq(s, i + 1, i + Len(sub)) = sub

Conversion(c, mod, suffix, arg) ==
    [Conversion |-> c, Modifiers |-> mod, Suffix |-> suffix, Arg |-> arg]

\* The hook on a p conversion followed by the modifier m, for the helper name
pointerConversion(c, m, name) ==
    IF name \notin kernelFunctions
    THEN [c EXCEPT !.Suffix = <<"FAILED POINTER MODIFIER " \o m \o " ">> \o Tail(c.Suffix)]
    ELSE Conversion("s", <<>>, Tail(c.Suffix), CallFunction(eventFunction(name), name, <<c.Arg>>))

\* mungePrintfConversions, the conversionCallback of the event types
mungePrintfConversions(c) ==
    IF c.Conversion = "p" /\ Len(c.Suffix) > 0 /\ c.Suffix[1] \in {"f", "F", "K"}
    THEN pointerConversion(c, c.Suffix[1], "__printk_p" \o c.Suffix[1])
    ELSE c

\* The width of the cast of an integer conversion with the modifiers mod
mungeSize(mod) ==
    IF Contains(mod, <<"l", "l">>) THEN 8
    ELSE IF Contains(mod, <<"l">>) THEN 8
    ELSE IF Contains(mod, <<"h", "h">>) THEN 1
    ELSE IF Contains(mod, <<"h">>) THEN 2
    ELSE IF Contains(mod, <<"z">>) THEN 8
    ELSE 4

\* for _, m := range modifiers { ... }: the modifiers that Sprintf takes
keptModifiers(mod) == SelectSeq(mod, LAMBDA m : m \notin trimmedConversionModfiers)

\* munge of an integer conversion c (i is d by now): the cast of the argument
mungeInteger(c) ==
    IF c.Conversion \in {"d", "u", "x", "X", "o"}
    THEN [c EXCEPT !.Conversion = IF c.Conversion = "u" THEN "d" ELSE @,
                   !.Arg = CastExpression(@, mungeSize(c.Modifiers), c.Conversion = "d")]
    ELSE c

\* munge of a p conversion with no modifiers
mungePointer(c) ==
    IF c.Conversion = "p" /\ c.Modifiers = <<>>
    THEN [c EXCEPT !.Conversion = "x", !.Modifiers = <<"0", "1", "6">>,
                   !.Arg = CastExpression(@, 8, FALSE)]
    ELSE c

\* munge
munge(c) ==
    [mungePointer(mungeInteger(IF c.Conversion = "i" THEN [c EXCEPT !.Conversion = "d"] ELSE c))
        EXCEPT !.Modifiers = keptModifiers(@)]

\* What mungeConversions has so far: the pieces of the output, the arguments
\* and whether it panicked
Munged(out, args, panic) == [out |-> out, args |-> args, panic |-> panic]

RECURSIVE mungeLoop(_, _, _, _, _)

\* The munged conversion conv is written and put back
mungeWrite(out, conv, args, arg, cb) ==
    mungeLoop(out \o conv.Modifiers \o <<conv.Conversion>>, conv.Suffix,
              [args EXCEPT ![arg + 1] = conv.Arg], arg + 1, cb)

\* out with the first modifier that is none, if there is one
unexpectedModifier(out, trimmed) ==
    IF trimmed # <<>> THEN out \o <<"UNEXPECTED MODIFIER(" \o trimmed[1] \o ")">> ELSE out

\* The conversion c with the modifiers mod before it and rest after it
mungeConversion(out, c, mod, rest, args, arg, cb) ==
    IF c = "%" /\ mod = <<>> THEN mungeLoop(out \o <<c>>, rest, args, arg, cb)
    ELSE IF arg >= Len(args)
    THEN Munged(unexpectedModifier(out, TrimLeft(mod, validModifiers)), args, TRUE)
    ELSE mungeWrite(unexpectedModifier(out, TrimLeft(mod, validModifiers)),
                    munge(IF cb = "nil" THEN Conversion(c, mod, rest, args[arg + 1])
                          ELSE mungePrintfConversions(Conversion(c, mod, rest, args[arg + 1]))),
                    args, arg, cb)

\* After a %: the specifier at conversionEndIndex of what follows
mungeOne(out, format, conversionEndIndex, args, arg, cb) ==
    IF conversionEndIndex = -1
    THEN Munged(out \o <<"MISSING CONVERSION(">> \o format \o <<")">>, args, FALSE)
    ELSE mungeConversion(out, format[conversionEndIndex + 1], SubSeq(format, 1, conversionEndIndex),
                         SubSeq(format, conversionEndIndex + 2, Len(format)), args, arg, cb)

\* The text up to the % at i is copied
mungeNext(out, format, i, args, arg, cb) ==
    IF i = -1 THEN Munged(out \o format, args, FALSE)
    ELSE mungeOne(out \o SubSeq(format, 1, i + 1), SubSeq(format, i + 2, Len(format)),
                  IndexAny(SubSeq(format, i + 2, Len(format)), conversionSpecifiers),
                  args, arg, cb)

\* for format != "" { ... } of mungeConversions
mungeLoop(out, format, args, arg, cb) ==
    IF format = <<>> THEN Munged(out, args, FALSE)
    ELSE mungeNext(out, format, IndexAny(format, {"%"}), args, arg, cb)

mungeConversions(format, args, cb) == mungeLoop(<<>>, format, args, 0, cb)

\* The modifiers of the conversions of the formats
FormatFlags == {<<>>, <<"0", "8">>, <<"-", "4">>, <<".", "2">>, <<"#">>}

LengthModifiers == {<<>>, <<"h", "h">>, <<"h">>, <<"l">>, <<"l", "l">>, <<"z">>}

FormatConversions == {"d", "i", "u", "x", "X", "o", "s", "c", "p", "%"}

\* One conversion of a format
Conv(flags, length, c) == <<"%">> \o flags \o length \o <<c>>

\* The formats: one conversion between texts, two conversions, the pointer
\* conversions of the kernel, and formats with no conversion
OneConversion ==
    {prefix \o Conv(flags, length, c) \o suffix :
        prefix \in {<<>>, <<"a", "=">>}, flags \in FormatFlags, length \in LengthModifiers,
        c \in FormatConversions, suffix \in {<<>>, <<" ">>}}

TwoConversions ==
    {Conv(<<>>, l1, c1) \o <<" ">> \o Conv(<<>>, l2, c2) :
        l1 \in {<<>>, <<"l">>}, l2 \in {<<>>, <<"h">>},
        c1 \in FormatConversions, c2 \in FormatConversions}

PointerConversions ==
    {<<"%", "p", m>> \o suffix : m \in {"f", "F", "K", "S"}, suffix \in {<<>>, <<" ", "%", "d">>}}

NoConversion == {<<>>, <<"a">>, <<"%">>, <<"%", "l">>}

Formats == OneConversion \cup TwoConversions \cup PointerConversions \cup NoConversion

FormatText == [f \in Formats |-> Join(f)]

\* The characters of the string of a format
FormatChars(text) == CHOOSE f \in Formats : FormatText[f] = text

\* The call of the printf function of what mungeConversions gave
printfCall(m) ==
    IF m.panic THEN [err |-> "panic: index out of range", e |-> NilExpression]
    ELSE [err |-> "", e |-> CallFunction(printfFunction(Join(m.out)), "printf", m.args)]

\* NewPrintfFunction: the error and the Expression
NewPrintfFunction(args, cb) ==
    IF Len(args) < 1
    THEN [err |-> "expected at least one argument to printf", e |-> NilExpression]
    ELSE IF ~args[1].constant
    THEN [err |-> "expected constant as first argument to printf, got " \o Dump(args[1]),
          e |-> NilExpression]
    ELSE IF ~IsString(ExprValue(args[1], NilContext))
    THEN [err |-> "expected string as first argument to printf, got " \o Dump(args[1]),
          e |-> NilExpression]
    ELSE printfCall(mungeConversions(FormatChars(ExprValue(args[1], NilContext).stringVal),
                                     Tail(args), cb))

\* The constant expression of the string of a format
FormatConstant(f) == newConstantExpression("\"" \o FormatText[f] \o "\"", NewValueString(FormatText[f]))

\* The fields of the events of the printf formats: a 4-byte signed integer,
\* and an address that kallsyms has or has not
PrintfFieldsA ==
    {IntField(4, TRUE, p) : p \in {SmallPattern(-1), SmallPattern(1), MinSignedPattern(4)}}

PrintfFieldsB == {IntField(8, FALSE, U64FromNat(1)), IntField(8, FALSE, U64FromNat(3))}

\* The arguments of NewPrintfFunction: a format and one or two arguments,
\* a format alone, and what is no format
PrintfArgs ==
    {<<FormatConstant(f), VarA>> : f \in OneConversion \cup NoConversion}
    \cup {<<FormatConstant(f), VarA, VarB>> : f \in TwoConversions}
    \cup {<<FormatConstant(f), VarB, VarA>> : f \in PointerConversions}
    \cup {<<FormatConstant(f)>> : f \in {<<>>, <<"a">>, <<"%", "d">>, <<"%", "%">>}}
    \cup {<<>>, <<VarA>>, <<Lit(<<"1">>)>>}

InitPrintf ==
    /\ FtraceOff
    /\ KallsymsOff
    /\ ParseOff
    /\ literal = <<>>
    /\ expr = NilExpression
    /\ result = NotEvaluated
    /\ printfErr = NotCalled
    /\ printfArgs \in PrintfArgs
    /\ callback \in {"nil", "mungePrintfConversions"}
    /\ ctx \in {<<a, b, DefaultField>> : a \in PrintfFieldsA, b \in PrintfFieldsB}

\* NewPrintfFunction(printfArgs, callback)
NewPrintf ==
    /\ printfErr = NotCalled
    /\ printfErr' = NewPrintfFunction(printfArgs, callback).err
    /\ expr' = NewPrintfFunction(printfArgs, callback).e
    /\ UNCHANGED <<literal, ctx, result, again, kallsyms, parseVars, printfArgs, callback, ftraceVars>>

NextPrintf == NewPrintf \/ Evaluate

\* The printf expression of a format is built, then evaluated on an event
SpecPrintf == InitPrintf /\ [][NextPrintf]_vars

\* ------------------------------------------------------------------------
\* __get_str on the records of an event type with a 4-byte or 8-byte
\* __data_loc field followed by the dynamic data
\* ------------------------------------------------------------------------

\* The dynamic data: at most MaxData bytes, a zero byte among them or not
RecordData == UNION {[1..n -> {0, 97, 98}] : n \in 0..MaxData}

DataField(bytes) ==
    [ftype |-> "char", size |-> Len(bytes), signed |-> FALSE, contents |-> bytes,
     str |-> ByteString(TruncateAtZero(bytes))]

\* The values of the __data_loc field: offsets up to past the end of the
\* longest record, lengths from none to those with the top bit set
DataLocs ==
    {<<offset, offsetHigh, length, lengthHigh, upper, upper, upper, upper>> :
        offset \in 0..(8 + MaxData + 1), offsetHigh \in {0, 1}, length \in 0..(MaxData + 1),
        lengthHigh \in {0, 128, 255}, upper \in {0, 255}}

DataLocFields ==
    {IntField(4, signed, loc) : signed \in BOOLEAN, loc \in {l \in DataLocs : l[8] = 0}}
    \cup {IntField(8, signed, loc) : signed \in BOOLEAN, loc \in {l \in DataLocs : l[4] = 0}}

\* __get_str(REC->a)
GetStrCall == CallFunction(eventFunction("__get_str"), "__get_str", <<VarA>>)

InitGetStr ==
    /\ FtraceOff
    /\ KallsymsOff
    /\ ParseOff
    /\ PrintfOff
    /\ literal = <<>>
    /\ result = NotEvaluated
    /\ \/ /\ expr = GetStrCall
          /\ ctx \in {<<loc, DataField(d)>> : loc \in DataLocFields, d \in RecordData}
       \/ /\ expr \in {CallFunction(eventFunction("__get_str"), "__get_str", args) :
                        args \in {<<>>, <<VarB>>, <<VarA, VarA>>}}
          /\ ctx \in {<<IntField(4, FALSE, Zero64), DataField(d)>> : d \in RecordData}

NextGetStr == Evaluate

\* __get_str is evaluated on an event
SpecGetStr == InitGetStr /\ [][NextGetStr]_vars

\* --- an expression evaluated twice on the same event

\* The helpers of the pointer conversions, called on a field
PointerCalls ==
    {CallFunction(eventFunction(name), name, args) :
        name \in {"__printk_pf", "__printk_pF", "__printk_pk"},
        args \in {<<VarB>>, <<VarA>>, <<>>, <<VarB, VarB>>, <<UnknownX>>}}

\* The printf functions of the formats with a pointer conversion
PointerPrintfs ==
    {NewPrintfFunction(<<FormatConstant(f), VarB, VarA>>, "mungePrintfConversions").e :
        f \in PointerConversions}

\* The expressions that are evaluated twice: constants, operators on the
\* fields, casts, and calls of the helpers of the kernel
AgainShapes ==
    ConstantShapes \cup PointerCalls \cup PointerPrintfs \cup CastShapes
    \cup {GetStrCall, newOperatorExpression(OpToken("+"), <<VarA, VarB>>),
          newOperatorExpression(OpToken("/"), <<VarA, VarB>>),
          newOperatorExpression(OpToken("?"),
              <<VarA, CallFunction(eventFunction("__printk_pf"), "__printk_pf", <<VarB>>),
                VarC>>)}

\* What /proc/kallsyms gives when it is read
KallsymsFiles == {"unreadable", "v1", "v2"}

InitAgain ==
    /\ FtraceOff
    /\ ParseOff
    /\ PrintfOff
    /\ literal = <<>>
    /\ result = NotEvaluated
    /\ again = NotEvaluated
    /\ expr \in AgainShapes
    /\ ctx \in {<<a, b, DefaultField>> :
                  a \in PrintfFieldsA \cup {IntField(4, TRUE, Zero64)}, b \in PrintfFieldsB}
    /\ kallsyms \in {Kallsyms("nil", file) : file \in KallsymsFiles}

\* expr.Value(ctx) once more, with the same context
EvaluateAgain ==
    /\ result # NotEvaluated
    /\ again = NotEvaluated
    /\ again' = Eval(expr, ctx)
    /\ kallsyms' = kallsymsAfter(kallsyms, expr, ctx)
    /\ UNCHANGED <<literal, expr, ctx, result, parseVars, printfVars, ftraceVars>>

\* The kernel loads or unloads a module, or the file stops being readable:
\* /proc/kallsyms gives something else from now on
KallsymsChange ==
    /\ \E file \in KallsymsFiles \ {kallsyms.file} : kallsyms' = [kallsyms EXCEPT !.file = file]
    /\ UNCHANGED <<literal, expr, ctx, result, again, parseVars, printfVars, ftraceVars>>

NextAgain == Evaluate \/ EvaluateAgain \/ KallsymsChange

\* An expression is evaluated, and evaluated again, while /proc/kallsyms changes
SpecAgain == InitAgain /\ [][NextAgain]_vars

\* ------------------------------------------------------------------------
\* The parser as a state machine: the tokens of an input are parsed in the
\* scope of the tests
\* ------------------------------------------------------------------------

Sym(name) == Token("tokenSymbol", name)

Num(val) == Token("tokenNumber", val)

OperandNames == <<"a", "b", "c", "d", "e", "g", "h", "k">>

\* The operators that stand between two operands
InfixOps == BinaryOps \cup {"?", ":"}

NestOps == {"?", ":", "||", "==", "+", "*"}

\* The tokens of: operand, operator, operand, ... with the operators ops
Infix(ops) ==
    [i \in 1..(2 * Len(ops) + 1) |->
        IF i % 2 = 1 THEN Sym(OperandNames[(i + 1) \div 2]) ELSE OpToken(ops[i \div 2])]

InfixInputs ==
    {Infix(ops) : ops \in UNION {[1..n -> InfixOps] : n \in 0..MaxOperators}}
    \cup {Infix(ops) : ops \in UNION {[1..n -> NestOps] : n \in 0..MaxNest}}

\* The pieces of an input with unary operators, casts and parentheses
Units ==
    {<<Sym("b")>>, <<OpToken("+")>>, <<OpToken("-")>>, <<OpToken("~")>>, <<OpToken("*")>>,
     <<OpToken("("), Sym("t"), OpToken(")")>>, <<OpToken("("), Sym("a"), OpToken(")")>>}

RECURSIVE Flatten(_)
Flatten(ss) == IF ss = <<>> THEN <<>> ELSE ss[1] \o Flatten(Tail(ss))

UnitInputs == {Flatten(us) : us \in UNION {[1..n -> Units] : n \in 0..MaxUnits}}

\* a * b / c % d
MultDivMod == Infix(<<"*", "/", "%">>)

\* a ? b ? c : d : e
NestedTernary == Infix(<<"?", "?", ":", ":">>)

\* (t)-b
CastMinus == <<OpToken("("), Sym("t"), OpToken(")"), OpToken("-"), Sym("b")>>

\* (a)-b
ParenMinus == <<OpToken("("), Sym("a"), OpToken(")"), OpToken("-"), Sym("b")>>

\* a + + b
PlusPlus == <<Sym("a"), OpToken("+"), OpToken("+"), Sym("b")>>

\* - (t) b
MinusCast == <<OpToken("-"), OpToken("("), Sym("t"), OpToken(")"), Sym("b")>>

\* Inputs of the parse tests
TestInputs ==
    {MultDivMod, NestedTernary, CastMinus, ParenMinus, PlusPlus, MinusCast,
     Infix(<<"%", "/", "*">>),
     Infix(<<"<", "<=", ">", ">=">>),
     Infix(<<">=", ">", "<=", "<">>),
     Infix(<<"||", "?", "||", ":", "||">>),
     <<OpToken("{"), Sym("a"), OpToken("}")>>,
     <<Sym("a"), OpToken(","), Sym("b")>>,
     <<Sym("f"), OpToken("("), Sym("a"), OpToken(")")>>,
     <<Sym("f"), OpToken("("), Sym("a"), OpToken(","), Sym("b"), OpToken(")")>>,
     <<Sym("f"), OpToken("("), OpToken(")")>>,
     <<OpToken("("), Sym("int"), OpToken(")"), Sym("a")>>,
     <<OpToken("("), Sym("unsigned"), Sym("long"), OpToken(")"), Sym("a")>>,
     <<OpToken("("), Sym("long"), Sym("char"), OpToken(")"), Sym("a")>>,
     <<OpToken("("), Sym("a"), OpToken("+"), Sym("b"), OpToken(")"), OpToken("*"), Sym("c")>>,
     <<OpToken("("), Sym("a")>>,
     <<Num("1"), OpToken("+"), Num("0xff")>>,
     <<Num("1UL")>>}

ParserInputs == InfixInputs \cup UnitInputs \cup TestInputs

\* The variables of the evaluator before any use
EvalOff ==
    literal = <<>> /\ expr = NilExpression /\ ctx = <<>> /\ result = NotEvaluated /\ KallsymsOff

InitParse ==
    /\ input = <<>>
    /\ tokens \in ParserInputs
    /\ parsed = NotParsed
    /\ lexer = LexerOff
    /\ FtraceOff
    /\ EvalOff
    /\ PrintfOff

\* Parse(input, testScope{}), from the tokens of the input on
ParseInput ==
    /\ parsed = NotParsed
    /\ parsed' = Parse(tokens, testScope)
    /\ UNCHANGED <<evalVars, printfVars, ftraceVars, input, tokens, lexer>>

NextParse == ParseInput

SpecParse == InitParse /\ [][NextParse]_vars

\* ------------------------------------------------------------------------
\* Parse on an input text: the lexer, then the parser
\* ------------------------------------------------------------------------

InitText ==
    /\ input \in InputTexts
    /\ tokens = <<>>
    /\ parsed = NotParsed
    /\ lexer = LexerOff
    /\ FtraceOff
    /\ EvalOff
    /\ PrintfOff

\* Parse(input, testScope{})
ParseText ==
    /\ parsed = NotParsed
    /\ tokens' = allTokens(input)
    /\ parsed' = Parse(allTokens(input), testScope)
    /\ UNCHANGED <<evalVars, printfVars, ftraceVars, input, lexer>>

NextText == ParseText

SpecText == InitText /\ [][NextText]_vars

\* ------------------------------------------------------------------------
\* The lexer as a goroutine: NewLexer, l.run() and a consumer that ranges
\* over l.tokens
\* ------------------------------------------------------------------------

\* The characters of the inputs of the lexer
LexerChars == {"a", "1", " ", "-", ">", "=", "\"", "\\", "@"}

LexerTexts == UNION {[1..n -> LexerChars] : n \in 0..MaxInput}

\* lexNone: the stateFn for the character at the position start; it emits
\* nothing and leaves l.pos where it is
lexNoneState(text, start) ==
    LET c == peek(text, start)
    IN  IF c = eof THEN "nil"
        ELSE IF c = "\"" THEN "lexString"
        ELSE IF isNumber(c) THEN "lexNumber"
        ELSE IF isSymbolStartValid(c) THEN "lexSymbol"
        ELSE "lexPunctuation"

\* l.state(l) from the position start: the tokens sent, l.pos, and the
\* stateFn returned
stateFn(state, text, start) ==
    IF state = "lexNone"
    THEN [toks |-> <<>>, pos |-> start, state |-> lexNoneState(text, start)]
    ELSE LET r == CASE state = "lexString" -> lexString(text, start)
                    [] state = "lexNumber" -> lexNumber(text, start)
                    [] state = "lexSymbol" -> lexSymbol(text, start)
                    [] state = "lexPunctuation" -> lexPunctuation(text, start)
         IN  [toks |-> r.toks, pos |-> r.pos,
              state |-> IF r.stop THEN "nil" ELSE "lexNone"]

\* NewLexer(input): go l.run(), which starts with l.state = lexNone
InitLexer ==
    /\ input \in LexerTexts
    /\ tokens = <<>>
    /\ parsed = NotParsed
    /\ lexer = Lexer("lexNone", 0, 0, <<>>, FALSE)
    /\ FtraceOff
    /\ EvalOff
    /\ PrintfOff

\* l.state = l.nextState(): l.trimLeft(), then l.state(l), up to the send
\* of the token on l.tokens if the state emits one
LexerStep ==
    /\ lexer.state \notin {"off", "nil"}
    /\ lexer.sending = <<>>
    /\ LET start == trimLeft(input, lexer.pos)
           r == stateFn(lexer.state, input, start)
       IN  lexer' = Lexer(r.state, r.pos, start, r.toks, FALSE)
    /\ UNCHANGED <<evalVars, printfVars, ftraceVars, input, tokens, parsed>>

\* for t := range l.tokens { tokens = append(tokens, t) }: the consumer
\* receives the token that the lexer is sending
LexerReceive ==
    /\ lexer.sending # <<>>
    /\ tokens' = tokens \o lexer.sending
    /\ lexer' = [lexer EXCEPT !.sending = <<>>]
    /\ UNCHANGED <<evalVars, printfVars, ftraceVars, input, parsed>>

\* close(l.tokens), after the loop of l.run()
LexerClose ==
    /\ lexer.state = "nil"
    /\ lexer.sending = <<>>
    /\ ~lexer.closed
    /\ lexer' = [lexer EXCEPT !.closed = TRUE]
    /\ UNCHANGED <<evalVars, printfVars, ftraceVars, input, tokens, parsed>>

NextLexer == LexerStep \/ LexerReceive \/ LexerClose

SpecLexer == InitLexer /\ [][NextLexer]_vars

\* The goroutine of l.run() runs when it can, and the consumer keeps
\* receiving
FairLexer == WF_vars(LexerStep \/ LexerClose) /\ WF_vars(LexerReceive)

SpecLexerFair == SpecLexer /\ FairLexer

\* ------------------------------------------------------------------------
\* The capture as a state machine: after
\* PrepareCapture there are, for each cpu, the goroutine that reads the raw
\* pipe and the goroutine that decodes its pages, and Capture runs in the
\* goroutine of its caller. The channels have no buffer: a send and its
\* receive are one step of the two goroutines. A page is the number of
\* pages that its pipe gave up to it.
\* ------------------------------------------------------------------------

Cpus == 1..NumCpus

\* The Events that decodePage gives for a page of a cpu
PageEvents(cpu, buf) == [cpu |-> cpu, page |-> buf]

Reader(pc, buf) == [pc |-> pc, buf |-> buf]

Decoder(pc, events) == [pc |-> pc, events |-> events]

NoEvents == <<>>

InitCapture ==
    /\ PagesOff
    /\ FilesOff
    /\ ParseOff
    /\ PrintfOff
    /\ EvalOff
    /\ done = FALSE
    /\ pagesRead = [c \in Cpus |-> 0]
    /\ readAtDone = [c \in Cpus |-> 0]
    /\ reader = [c \in Cpus |-> Reader("Read", 0)]
    /\ decoder = [c \in Cpus |-> Decoder("select", NoEvents)]
    /\ capture = [pc |-> "Select", selectCases |-> Cpus, chosen |-> 0, events |-> NoEvents]
    /\ delivered = [c \in Cpus |-> <<>>]
    /\ running = 0

cparseVars == <<evalVars, parseVars, printfVars>>

\* What the goroutines of the capture leave alone
notCaptureVars == <<cparseVars, pageVars, fileVars>>

\* close(doneCh), by the goroutine of the signal or of the timeout
CloseDone ==
    /\ capture.pc # "not called"
    /\ ~done
    /\ done' = TRUE
    /\ readAtDone' = pagesRead
    /\ UNCHANGED <<notCaptureVars, pagesRead, reader, decoder, capture, delivered, running>>

\* n, err := f.Read(buf) gives a page
ReadPage(cpu) ==
    /\ reader[cpu].pc = "Read"
    /\ pagesRead[cpu] < MaxPages
    /\ pagesRead' = [pagesRead EXCEPT ![cpu] = @ + 1]
    /\ reader' = [reader EXCEPT ![cpu] = Reader("select", pagesRead[cpu] + 1)]
    /\ UNCHANGED <<notCaptureVars, done, readAtDone, decoder, capture, delivered, running>>

\* f.Read gives io.EOF, another error that is not EINTR, or n == 0: break,
\* and the deferred close(ch) and f.Close()
ReadFails(cpu) ==
    /\ reader[cpu].pc = "Read"
    /\ reader' = [reader EXCEPT ![cpu] = Reader("closed", 0)]
    /\ UNCHANGED <<notCaptureVars, done, pagesRead, readAtDone, decoder, capture, delivered, running>>

\* The reader after case ch <- buf[0:n] of its select: the next Read
readerPublishedAgain(r) == r

readerPublished(r) == Reader("Read", 0)

\* case ch <- buf[0:n] of the reader and case buf, ok := <-rawCh of the
\* decoder, with ok: decodePage, and the decoder goes to eventCh <- events
Publish(cpu) ==
    /\ reader[cpu].pc = "select"
    /\ decoder[cpu].pc = "select"
    /\ reader' = [reader EXCEPT ![cpu] = readerPublished(@)]
    /\ decoder' = [decoder EXCEPT ![cpu] = Decoder("send", PageEvents(cpu, reader[cpu].buf))]
    /\ UNCHANGED <<notCaptureVars, done, pagesRead, readAtDone, capture, delivered, running>>

\* rawDoneCh is closed: the deferred close(rawDoneCh) of the decoder ran
rawDoneClosed(cpu) == decoder[cpu].pc = "returned"

\* case <-doneCh of the reader: break leaves the select, and the for loop
\* goes on with the next Read
ReaderDone(cpu) ==
    /\ reader[cpu].pc = "select"
    /\ rawDoneClosed(cpu)
    /\ reader' = [reader EXCEPT ![cpu] = Reader("Read", 0)]
    /\ UNCHANGED <<notCaptureVars, done, pagesRead, readAtDone, decoder, capture, delivered, running>>

\* case <-doneCh of the decoder: return, and the deferred close(eventCh)
DecoderDone(cpu) ==
    /\ decoder[cpu].pc = "select"
    /\ done
    /\ decoder' = [decoder EXCEPT ![cpu] = Decoder("closing", NoEvents)]
    /\ UNCHANGED <<notCaptureVars, done, pagesRead, readAtDone, reader, capture, delivered, running>>

\* case buf, ok := <-rawCh of the decoder with !ok: return, and the
\* deferred close(eventCh)
DecoderRawClosed(cpu) ==
    /\ decoder[cpu].pc = "select"
    /\ reader[cpu].pc = "closed"
    /\ decoder' = [decoder EXCEPT ![cpu] = Decoder("closing", NoEvents)]
    /\ UNCHANGED <<notCaptureVars, done, pagesRead, readAtDone, reader, capture, delivered, running>>

\* The deferred close(rawDoneCh) of the decoder
DecoderReturns(cpu) ==
    /\ decoder[cpu].pc = "closing"
    /\ decoder' = [decoder EXCEPT ![cpu] = Decoder("returned", NoEvents)]
    /\ UNCHANGED <<notCaptureVars, done, pagesRead, readAtDone, reader, capture, delivered, running>>

\* eventCh of the cpu is closed
eventChClosed(cpu) == decoder[cpu].pc \in {"closing", "returned"}

\* for len(f.selectCases) > 1 is over
CaptureEnds ==
    /\ capture.pc = "Select"
    /\ capture.selectCases = {}
    /\ capture' = [capture EXCEPT !.pc = "returned"]
    /\ UNCHANGED <<notCaptureVars, done, pagesRead, readAtDone, reader, decoder, delivered, running>>

\* reflect.Select chose doneCh: chosen == 0, break
CaptureDone ==
    /\ capture.pc = "Select"
    /\ capture.selectCases # {}
    /\ done
    /\ capture' = [capture EXCEPT !.pc = "returned"]
    /\ UNCHANGED <<notCaptureVars, done, pagesRead, readAtDone, reader, decoder, delivered, running>>

\* The closed eventCh of a cpu is chosen and its case stays in f.selectCases
CaptureClosedKept(cpu) ==
    /\ capture.pc = "Select"
    /\ cpu \in capture.selectCases
    /\ eventChClosed(cpu)
    /\ capture' = [capture EXCEPT !.chosen = 0]
    /\ UNCHANGED <<notCaptureVars, done, pagesRead, readAtDone, reader, decoder, delivered, running>>

\* reflect.Select chose the closed eventCh of a cpu: !recvOK, its case is
\* taken out of f.selectCases
CaptureClosed(cpu) ==
    /\ capture.pc = "Select"
    /\ cpu \in capture.selectCases
    /\ eventChClosed(cpu)
    /\ capture' = [capture EXCEPT !.selectCases = @ \ {cpu}]
    /\ UNCHANGED <<notCaptureVars, done, pagesRead, readAtDone, reader, decoder, delivered, running>>

\* eventCh <- events of the decoder and reflect.Select choosing the eventCh
\* of the cpu: callback(events) is called
CaptureEvents(cpu) ==
    /\ capture.pc = "Select"
    /\ cpu \in capture.selectCases
    /\ decoder[cpu].pc = "send"
    /\ capture' = [capture EXCEPT !.pc = "callback", !.chosen = cpu,
                                  !.events = decoder[cpu].events]
    /\ decoder' = [decoder EXCEPT ![cpu] = Decoder("select", NoEvents)]
    /\ delivered' = [delivered EXCEPT ![cpu] = Append(@, decoder[cpu].events)]
    /\ running' = running + 1
    /\ UNCHANGED <<notCaptureVars, done, pagesRead, readAtDone, reader>>

\* callback(events) returns
CallbackReturns ==
    /\ capture.pc = "callback"
    /\ capture' = [capture EXCEPT !.pc = "Select", !.chosen = 0, !.events = NoEvents]
    /\ running' = running - 1
    /\ UNCHANGED <<notCaptureVars, done, pagesRead, readAtDone, reader, decoder, delivered>>

ReaderNext(cpu) == ReadPage(cpu) \/ ReadFails(cpu) \/ Publish(cpu) \/ ReaderDone(cpu)

DecoderNext(cpu) == DecoderDone(cpu) \/ DecoderRawClosed(cpu) \/ DecoderReturns(cpu)

CaptureNext ==
    \/ CaptureEnds
    \/ CaptureDone
    \/ \E cpu \in Cpus : CaptureClosed(cpu)
    \/ \E cpu \in Cpus : CaptureEvents(cpu)
    \/ CallbackReturns

NextCapture ==
    \/ CloseDone
    \/ \E cpu \in Cpus : ReaderNext(cpu)
    \/ \E cpu \in Cpus : DecoderNext(cpu)
    \/ CaptureNext

SpecCapture == InitCapture /\ [][NextCapture]_vars

\* The scheduler of Go runs every goroutine that can take a step; when a
\* Read returns and when doneCh is closed is for the kernel and the user
FairCapture ==
    /\ \A cpu \in Cpus : WF_vars(Publish(cpu) \/ ReaderDone(cpu))
    /\ \A cpu \in Cpus : WF_vars(DecoderNext(cpu))
    /\ WF_vars(CaptureNext)

SpecCaptureFair == SpecCapture /\ FairCapture

\* ------------------------------------------------------------------------
\* The pages of a raw pipe: decodePage on the bytes of a page
\* ------------------------------------------------------------------------

entryTypeDataMax == 28

entryTypePadding == 29

entryTypeTimeExt == 30

\* The offset of the data field of events/header_page, after the timestamp
\* and commit fields of 8 bytes each
pageOffset == 16

\* f.eventTypes: the size of the event type of an id, 0 for no event type
eventTypeSize(typeId) == CASE typeId = 1 -> 4 [] typeId = 3 -> 8 [] OTHER -> 0

\* The data field of events/header_page takes the rest of a page
PageDataSize == 16 * (MaxEntries + 1)

\* order.Uint32(data) is below 2^16, and then its value
smallUint32(data) == data[3] = 0 /\ data[4] = 0

lowUint32(data) == data[1] + 256 * data[2]

\* uint64(order.Uint32(data))
Uint32(data) == <<data[1], data[2], data[3], data[4], 0, 0, 0, 0>>

\* typeLen := (entryHeader >> entryTypeLenShift) & entryTypeLenMask
entryTypeLen(data) == data[1] % 32

\* timeDelta := uint64((entryHeader >> entryTimeDeltaShift) & entryTimeDeltaMask)
entryTimeDelta(data) ==
    <<(data[1] \div 32) + 8 * (data[2] % 32), (data[2] \div 32) + 8 * (data[3] % 32),
      (data[3] \div 32) + 8 * (data[4] % 32), data[4] \div 32, 0, 0, 0, 0>>

\* timeDelta += uint64(timeDeltaExt) << entryTimeDeltaBits
timeExtDeltaLow(timeDelta, timeDeltaExt) == timeDelta

timeExtDelta(timeDelta, timeDeltaExt) == U64Add(timeDelta, U64ShlSmall(timeDeltaExt, 27))

\* An Event of DecodeEvent(eventData, cpu, when)
DecodedEvent(typeId, cpu, when) == [etype |-> typeId, Cpu |-> cpu, When |-> when]

\* What decodePage returns: the events and the error; and the passes of
\* dataLoop that it ran, counted from the last one back
Decoded(evs, err) == [events |-> evs, err |-> err, passes |-> 0]

\* One more pass of dataLoop before what the passes after it gave
Pass(r) == [r EXCEPT !.passes = @ + 1]

BadPageHeader == "Bad page header"

BadEventData == "Bad event data"

BadEventHeader(what) == "Bad event header: " \o what

RECURSIVE dataLoop(_, _, _, _, _)

\* decodeEntry with the page given up at the first entry that is dropped
decodeEntryAbort(cpu, eventData, typeId, rest, when, evs, lazyErr) ==
    IF eventTypeSize(typeId) = 0
    THEN Decoded(evs, "unknown type ID: " \o ToString(typeId))
    ELSE IF Len(eventData) < eventTypeSize(typeId)
    THEN Decoded(evs, BadEventData)
    ELSE dataLoop(cpu, rest, when, Append(evs, DecodedEvent(typeId, cpu, when)), lazyErr)

\* The event of the data eventData of an entry: unknown type ids and data
\* too short for the type are the lazy error, and the loop goes on with rest
decodeEntry(cpu, eventData, typeId, rest, when, evs, lazyErr) ==
    IF eventTypeSize(typeId) = 0
    THEN dataLoop(cpu, rest, when, evs, "unknown type ID: " \o ToString(typeId))
    ELSE IF Len(eventData) < eventTypeSize(typeId)
    THEN dataLoop(cpu, rest, when, evs, BadEventData)
    ELSE dataLoop(cpu, rest, when, Append(evs, DecodedEvent(typeId, cpu, when)), lazyErr)

\* (dataLen+3)&^0x3
alignedLen(dataLen) == ((dataLen + 3) \div 4) * 4

\* An entry with dataLen bytes at the start of data; data[aligned:] of a
\* data shorter than that panics
dataEntry(cpu, data, dataLen, when, evs, lazyErr) ==
    IF Len(data) < dataLen \/ dataLen < 2
    THEN Decoded(evs, BadEventHeader("Not enough data"))
    ELSE IF alignedLen(dataLen) > Len(data)
    THEN Decoded(evs, "panic: slice bounds out of range")
    ELSE decodeEntry(cpu, SubSeq(data, 1, dataLen), data[1] + 256 * data[2],
                     SubSeq(data, alignedLen(dataLen) + 1, Len(data)), when, evs, lazyErr)

\* case typeLen <= entryTypeDataMax, after when += timeDelta
dataCase(cpu, typeLen, data, when, evs, lazyErr) ==
    IF typeLen = 0
    THEN IF Len(data) < 4
         THEN Decoded(evs, BadEventHeader("Not enough data for type len == 0"))
         ELSE IF ~smallUint32(data) THEN Decoded(evs, BadEventHeader("Not enough data"))
         ELSE dataEntry(cpu, SubSeq(data, 5, Len(data)), lowUint32(data), when, evs, lazyErr)
    ELSE dataEntry(cpu, data, typeLen * 4, when, evs, lazyErr)

\* A padding with no time_delta that is stepped over, the entries after it
\* being decoded
paddingCaseOn(cpu, timeDelta, data, when, evs, lazyErr) ==
    IF timeDelta = Zero64 THEN dataLoop(cpu, data, when, evs, lazyErr)
    ELSE IF Len(data) < 4
    THEN Decoded(evs, BadEventHeader("Not enough data for type padding"))
    ELSE IF ~smallUint32(data) \/ lowUint32(data) > Len(data)
    THEN Decoded(evs, "panic: slice bounds out of range")
    ELSE dataLoop(cpu, SubSeq(data, lowUint32(data) + 1, Len(data)), when, evs, lazyErr)

\* case typeLen == entryTypePadding; data[padding:] of a data shorter than
\* padding panics
paddingCase(cpu, timeDelta, data, when, evs, lazyErr) ==
    IF timeDelta = Zero64 THEN Decoded(evs, lazyErr)
    ELSE IF Len(data) < 4
    THEN Decoded(evs, BadEventHeader("Not enough data for type padding"))
    ELSE IF ~smallUint32(data) \/ lowUint32(data) > Len(data)
    THEN Decoded(evs, "panic: slice bounds out of range")
    ELSE dataLoop(cpu, SubSeq(data, lowUint32(data) + 1, Len(data)), when, evs, lazyErr)

\* A time extend that is stepped over with no time added
timeExtCaseSkip(cpu, timeDelta, data, when, evs, lazyErr) ==
    IF Len(data) < 4
    THEN Decoded(evs, BadEventHeader("Not enough data for type time ext"))
    ELSE dataLoop(cpu, SubSeq(data, 5, Len(data)), when, evs, lazyErr)

\* case typeLen == entryTypeTimeExt
timeExtCase(cpu, timeDelta, data, when, evs, lazyErr) ==
    IF Len(data) < 4
    THEN Decoded(evs, BadEventHeader("Not enough data for type time ext"))
    ELSE dataLoop(cpu, SubSeq(data, 5, Len(data)),
                  U64Add(when, timeExtDelta(timeDelta, Uint32(data))), evs, lazyErr)

\* The entry with the header typeLen, timeDelta and what follows it
entryCase(cpu, typeLen, timeDelta, data, when, evs, lazyErr) ==
    IF typeLen <= entryTypeDataMax
    THEN dataCase(cpu, typeLen, data, U64Add(when, timeDelta), evs, lazyErr)
    ELSE IF typeLen = entryTypePadding
    THEN paddingCase(cpu, timeDelta, data, when, evs, lazyErr)
    ELSE IF typeLen = entryTypeTimeExt
    THEN timeExtCase(cpu, timeDelta, data, when, evs, lazyErr)
    ELSE dataLoop(cpu, data, when, evs, lazyErr)

\* dataLoop with a pass that takes 2 bytes for the header of an entry
dataLoopShortHeader(cpu, data, when, evs, lazyErr) ==
    IF Len(data) = 0 THEN Decoded(evs, lazyErr)
    ELSE IF Len(data) < 4 THEN Pass(Decoded(evs, BadPageHeader))
    ELSE Pass(entryCase(cpu, entryTypeLen(data), entryTimeDelta(data),
                        SubSeq(data, 3, Len(data)), when, evs, lazyErr))

\* dataLoop: for len(data) > 0 { ... }
dataLoop(cpu, data, when, evs, lazyErr) ==
    IF Len(data) = 0 THEN Decoded(evs, lazyErr)
    ELSE IF Len(data) < 4 THEN Pass(Decoded(evs, BadPageHeader))
    ELSE Pass(entryCase(cpu, entryTypeLen(data), entryTimeDelta(data),
                        SubSeq(data, 5, Len(data)), when, evs, lazyErr))

\* pageLen := int(commit & ((1 << 30) - 1)), for a commit below 2^16
pageLenOf(commit) == commit[1] + 256 * commit[2]

\* decodePage after the header is decoded
decodePageData(cpu, data, when, pageLen) ==
    IF Len(data) < pageOffset + pageLen THEN Decoded(<<>>, BadPageHeader)
    ELSE dataLoop(cpu, SubSeq(data, pageOffset + 1, pageOffset + pageLen), when, <<>>, "")

\* decodePage
decodePage(cpu, data) ==
    IF Len(data) < pageOffset + PageDataSize THEN Decoded(<<>>, BadEventData)
    ELSE decodePageData(cpu, data, DecodeUint(SubSeq(data, 1, 8), 8),
                        pageLenOf(DecodeUint(SubSeq(data, 9, 16), 8)))

\* --- the pages as the kernel writes them: a timestamp and entries

\* The header of an entry: type_len in 5 bits, time_delta in 27 bits
EntryHeader(typeLen, delta) ==
    <<typeLen + 32 * (delta[1] % 8), (delta[1] \div 8) + 32 * (delta[2] % 8),
      (delta[2] \div 8) + 32 * (delta[3] % 8), (delta[3] \div 8) + 32 * (delta[4] % 8)>>

\* The greatest time_delta
MaxDelta == <<255, 255, 255, 7, 0, 0, 0, 0>>

\* The greatest extension of a time extend
MaxExt == <<255, 255, 255, 255, 0, 0, 0, 0>>

\* An entry: kind data (a type id, type_len 1), long (type_len 0 and a
\* length word), ext (time extend), discarded (padding with a delta, over
\* a discarded event) or end (padding with no delta: the end of the page)
Entry(kind, typeId, delta, ext) == [kind |-> kind, typeId |-> typeId, delta |-> delta, ext |-> ext]

Entries ==
    {Entry("data", 1, d, Zero64) : d \in {Zero64, One64, MaxDelta}}
    \cup {Entry("data", id, d, Zero64) : id \in {2, 3}, d \in {Zero64, One64}}
    \cup {Entry("long", 3, U64FromNat(2), Zero64)}
    \cup {Entry("ext", 0, Zero64, MaxExt), Entry("ext", 0, One64, One64)}
    \cup {Entry("discarded", 0, One64, Zero64), Entry("end", 0, Zero64, Zero64)}

\* The bytes of an entry
EntryBytes(e) ==
    CASE e.kind = "data" -> EntryHeader(1, e.delta) \o <<e.typeId, 0, 0, 0>>
      [] e.kind = "long" ->
            EntryHeader(0, e.delta) \o <<8, 0, 0, 0>> \o <<e.typeId, 0, 0, 0, 0, 0, 0, 0>>
      [] e.kind = "ext" -> EntryHeader(entryTypeTimeExt, e.delta) \o SubSeq(e.ext, 1, 4)
      [] e.kind = "discarded" ->
            EntryHeader(entryTypePadding, e.delta) \o <<8, 0, 0, 0>> \o <<1, 0, 0, 0>>
      [] e.kind = "overlong" ->
            EntryHeader(0, e.delta) \o <<5, 0, 0, 0>> \o <<e.typeId, 0, 0, 0, 0>>
      [] e.kind = "short" -> EntryHeader(2, e.delta) \o <<e.typeId, 0, 0, 0>>
      [] e.kind = "pastpad" -> EntryHeader(entryTypePadding, e.delta) \o <<12, 0, 0, 0>>
      [] e.kind = "cutlong" -> EntryHeader(0, e.delta)
      [] e.kind = "cutpad" -> EntryHeader(entryTypePadding, e.delta)
      [] e.kind = "cutext" -> EntryHeader(entryTypeTimeExt, e.delta)
      [] e.kind = "other" -> EntryHeader(31, e.delta)
      [] e.kind = "half" -> <<e.typeId, 0>>
      [] OTHER -> EntryHeader(entryTypePadding, Zero64)

RECURSIVE EntriesBytes(_)
EntriesBytes(es) == IF es = <<>> THEN <<>> ELSE EntryBytes(Head(es)) \o EntriesBytes(Tail(es))

\* The bytes of a page: the timestamp, the commit, the entries, and zeros
\* up to the size of a page
PageBytes(timestamp, data) ==
    timestamp \o U64FromNat(Len(data)) \o data \o [i \in 1..(PageDataSize - Len(data)) |-> 0]

RawPage(timestamp, es) == [timestamp |-> timestamp, entries |-> es]

\* The time of the last entry of a page, which no page after it is before
RECURSIVE EndOfEntries(_, _)
EndOfEntries(when, es) ==
    IF es = <<>> \/ Head(es).kind = "end" THEN when
    ELSE IF Head(es).kind = "discarded" THEN EndOfEntries(when, Tail(es))
    ELSE EndOfEntries(U64Add(when, U64Add(Head(es).delta, U64ShlSmall(Head(es).ext, 27))),
                      Tail(es))

EntryLists(n) == UNION {[1..k -> Entries] : k \in 0..n}

\* The timestamps of the first page: small, and above 2^32
FirstTimestamps == {U64FromNat(5), <<0, 0, 0, 0, 1, 0, 0, 0>>}

\* The raw pipe of a cpu holds one page or two, the second not before the
\* end of the first
RawPipes ==
    {<<RawPage(t, es)>> : t \in FirstTimestamps, es \in EntryLists(MaxEntries)}
    \cup {<<RawPage(t, es), RawPage(U64Add(EndOfEntries(t, es), gap), es2)>> :
            t \in FirstTimestamps, es \in EntryLists(MaxEntries), gap \in {Zero64, One64},
            es2 \in EntryLists(1)}

\* The cpu of the raw pipe
PipeCpu == CHOOSE cpu \in Cpus : \A other \in Cpus : cpu <= other

InitPages ==
    /\ CaptureOff
    /\ FilesOff
    /\ ParseOff
    /\ PrintfOff
    /\ EvalOff
    /\ rawPages \in RawPipes
    /\ pageEvents = <<>>

\* decodePage on the next page of the raw pipe
DecodePage ==
    /\ Len(pageEvents) < Len(rawPages)
    /\ pageEvents' =
           Append(pageEvents,
                  decodePage(PipeCpu, PageBytes(rawPages[Len(pageEvents) + 1].timestamp,
                                                EntriesBytes(rawPages[Len(pageEvents) + 1].entries))))
    /\ UNCHANGED <<cparseVars, captureVars, fileVars, rawPages>>

NextPages == DecodePage

SpecPages == InitPages /\ [][NextPages]_vars

\* --- pages of any bytes: entries that the kernel does not write

\* An entry that says more than the page holds when it is the last one: a
\* length word of 5 with 5 bytes of data (overlong), a type_len of 2 with 4
\* bytes of data (short), a padding of 12 bytes with none (pastpad), a header
\* with no word after it (cutlong, cutpad, cutext); a header of type_len 31
\* (other); and two bytes that are no header (half)
OverrunKinds == {"overlong", "short", "pastpad", "cutlong", "cutpad", "cutext"}

BadEntries ==
    {Entry(kind, 1, One64, Zero64) : kind \in OverrunKinds \cup {"other", "half"}}

\* The entries of a page of any bytes
AnyEntries ==
    BadEntries
    \cup {Entry("data", 1, One64, Zero64), Entry("data", 2, One64, Zero64),
          Entry("data", 3, Zero64, Zero64), Entry("long", 3, U64FromNat(2), Zero64),
          Entry("ext", 0, One64, One64), Entry("discarded", 0, One64, Zero64),
          Entry("end", 0, Zero64, Zero64)}

AnyEntryLists(n) == UNION {[1..k -> AnyEntries] : k \in 0..n}

\* The raw pipe holds a page of any entries, and a page after it
AnyPipes ==
    {<<RawPage(U64FromNat(5), es), RawPage(U64FromNat(9), es2)>> :
        es \in AnyEntryLists(MaxEntries + 1),
        es2 \in {<<>>, <<Entry("data", 1, One64, Zero64)>>}}

InitAnyPages ==
    /\ CaptureOff
    /\ FilesOff
    /\ ParseOff
    /\ PrintfOff
    /\ EvalOff
    /\ rawPages \in AnyPipes
    /\ pageEvents = <<>>

\* Pages of any bytes are decoded
SpecAnyPages == InitAnyPages /\ [][NextPages]_vars

\* ------------------------------------------------------------------------
\* The local file provider and the creation of event types (file.go,
\* eventtype.go): a path is its sequence of characters
\* ------------------------------------------------------------------------

RECURSIVE SplitOn(_, _, _)
\* strings.Split(s, sep) for a separator of one character, cur being the
\* characters since the last separator
SplitOn(s, sep, cur) ==
    IF s = <<>> THEN <<cur>>
    ELSE IF Head(s) = sep THEN <<cur>> \o SplitOn(Tail(s), sep, <<>>)
    ELSE SplitOn(Tail(s), sep, Append(cur, Head(s)))

RECURSIVE JoinOn(_, _)
\* strings.Join(elems, sep)
JoinOn(elems, sep) ==
    IF elems = <<>> THEN <<>>
    ELSE IF Len(elems) = 1 THEN elems[1]
    ELSE elems[1] \o <<sep>> \o JoinOn(Tail(elems), sep)

\* filepath.SplitList(path) on Unix: the elements of a list of paths, which
\* os.PathListSeparator, the colon, separates
SplitList(path) == IF path = <<>> THEN <<>> ELSE SplitOn(path, ":", <<>>)

\* SafeFtracePath
SafeFtracePath(path) == \A i \in 1..Len(SplitList(path)) : SplitList(path)[i] # <<".", ".">>

RECURSIVE cleanElements(_, _, _)
\* path.Clean on the elements of a path: out is what is kept so far
cleanElements(rooted, out, elems) ==
    IF elems = <<>> THEN out
    ELSE IF Head(elems) \in {<<>>, <<".">>} THEN cleanElements(rooted, out, Tail(elems))
    ELSE IF Head(elems) = <<".", ".">>
    THEN IF out # <<>> /\ out[Len(out)] # <<".", ".">>
         THEN cleanElements(rooted, SubSeq(out, 1, Len(out) - 1), Tail(elems))
         ELSE IF rooted THEN cleanElements(rooted, out, Tail(elems))
         ELSE cleanElements(rooted, Append(out, Head(elems)), Tail(elems))
    ELSE cleanElements(rooted, Append(out, Head(elems)), Tail(elems))

\* The cleaned path of its elements
cleaned(rooted, elems) ==
    IF rooted THEN <<"/">> \o JoinOn(elems, "/")
    ELSE IF elems = <<>> THEN <<".">>
    ELSE JoinOn(elems, "/")

\* path.Clean
Clean(p) ==
    IF p = <<>> THEN <<".">>
    ELSE cleaned(Head(p) = "/", cleanElements(Head(p) = "/", <<>>, SplitOn(p, "/", <<>>)))

\* path.Join
pathJoin(elems) ==
    IF SelectSeq(elems, LAMBDA e : e # <<>>) = <<>> THEN <<>>
    ELSE Clean(JoinOn(SelectSeq(elems, LAMBDA e : e # <<>>), "/"))

ftracePath ==
    <<"/", "s", "y", "s", "/", "k", "e", "r", "n", "e", "l", "/", "d", "e", "b", "u", "g",
      "/", "t", "r", "a", "c", "i", "n", "g">>

BadFtraceFileName == "Bad file name"

BadEvent == "Bad event name"

\* No file was accessed
NoFile == ""

FileResult(err, accessed) == [err |-> err, accessed |-> accessed]

\* The error of the operating system on a file that is there or is not
osError(exists) == IF exists THEN "" ELSE "no such file or directory"

\* localFileProvider.ReadFtraceFile, WriteFtraceFile and OpenFtrace: the
\* check of the name, then ioutil.ReadFile, ioutil.WriteFile or os.Open
localFile(filename, exists) ==
    IF ~SafeFtracePath(filename) THEN FileResult(BadFtraceFileName, NoFile)
    ELSE FileResult(osError(exists), Join(pathJoin(<<ftracePath, filename>>)))

\* "events", the directory of the event types
eventsDir == <<"e", "v", "e", "n", "t", "s">>

\* newEventType with the local file provider: the check of the name, then
\* parseFormatFile reads the format file of the event
newEventType(path, exists) ==
    IF ~SafeFtracePath(path) THEN FileResult(BadEvent, NoFile)
    ELSE localFile(pathJoin(<<eventsDir, path, <<"f", "o", "r", "m", "a", "t">>>>), exists)

FileCall(op, path) == [op |-> op, path |-> path]

PathChars == {"e", ".", "/", ":"}

\* The paths: all those of at most MaxPath characters, and longer ones
Paths ==
    UNION {[1..n -> PathChars] : n \in 0..MaxPath}
    \cup {eventsDir \o <<"/", ".", ".", "/", ".", ".", "/", "x">>,
          eventsDir \o <<"/", "s", "c", "h", "e", "d">>,
          <<"t", "r", "a", "c", "e">>}

InitFiles ==
    /\ CaptureOff
    /\ PagesOff
    /\ ParseOff
    /\ PrintfOff
    /\ EvalOff
    /\ fileCall \in {FileCall(op, path) :
                        op \in {"ReadFtraceFile", "WriteFtraceFile", "OpenFtrace", "NewEventType"},
                        path \in Paths}
    /\ fileResult = FileNotCalled
    /\ eventTypes = NoEventTypes

\* localFileProvider.ReadFtraceFile(fileCall.path)
ReadFtraceFile ==
    /\ fileResult = FileNotCalled
    /\ fileCall.op = "ReadFtraceFile"
    /\ \E exists \in BOOLEAN : fileResult' = localFile(fileCall.path, exists)
    /\ UNCHANGED <<cparseVars, captureVars, pageVars, fileCall, eventTypes>>

\* localFileProvider.WriteFtraceFile(fileCall.path, data)
WriteFtraceFile ==
    /\ fileResult = FileNotCalled
    /\ fileCall.op = "WriteFtraceFile"
    /\ \E exists \in BOOLEAN : fileResult' = localFile(fileCall.path, exists)
    /\ UNCHANGED <<cparseVars, captureVars, pageVars, fileCall, eventTypes>>

\* localFileProvider.OpenFtrace(fileCall.path)
OpenFtrace ==
    /\ fileResult = FileNotCalled
    /\ fileCall.op = "OpenFtrace"
    /\ \E exists \in BOOLEAN : fileResult' = localFile(fileCall.path, exists)
    /\ UNCHANGED <<cparseVars, captureVars, pageVars, fileCall, eventTypes>>

\* newEventType(fp, fileCall.path)
NewEventType ==
    /\ fileResult = FileNotCalled
    /\ fileCall.op = "NewEventType"
    /\ \E exists \in BOOLEAN : fileResult' = newEventType(fileCall.path, exists)
    /\ UNCHANGED <<cparseVars, captureVars, pageVars, fileCall, eventTypes>>

NextFiles == ReadFtraceFile \/ WriteFtraceFile \/ OpenFtrace \/ NewEventType

SpecFiles == InitFiles /\ [][NextFiles]_vars

\* ------------------------------------------------------------------------
\* The event types of an ftrace: NewEventType on the format files that a
\* FileProvider gives
\* ------------------------------------------------------------------------

\* A format file has at most MaxLines lines
MaxLines == 2

\* A line of a format file: the text before its first colon and the text
\* after it, both trimmed, or a line without a colon
FormatLine(colon, key, value) == [colon |-> colon, key |-> key, value |-> value]

\* The lines: empty, `junk`, `name: sched`, `ID: 1`, `ID: 2`, `ID: x`,
\* `field:int a; offset:0; size:4; signed:1;`, `field:x;`, `flags: 1`
FormatLines ==
    {FormatLine(FALSE, "", ""), FormatLine(FALSE, "junk", ""),
     FormatLine(TRUE, "name", "sched"),
     FormatLine(TRUE, "ID", "1"), FormatLine(TRUE, "ID", "2"), FormatLine(TRUE, "ID", "x"),
     FormatLine(TRUE, "field", "int a; offset:0; size:4; signed:1;"),
     FormatLine(TRUE, "field", "x;"),
     FormatLine(TRUE, "flags", "1")}

\* What ReadFtraceFile gives for a format file: an error, or lines of which
\* the last one ends in a newline or does not
FormatFile(readable, lines, newline) ==
    [readable |-> readable, lines |-> lines, newline |-> newline]

\* The files; a last line that is empty and has no newline is no line
FormatFiles ==
    {FormatFile(FALSE, <<>>, TRUE)}
    \cup {FormatFile(TRUE, lines, TRUE) :
            lines \in UNION {[1..n -> FormatLines] : n \in 0..MaxLines}}
    \cup {FormatFile(TRUE, lines, FALSE) :
            lines \in {ls \in UNION {[1..n -> FormatLines] : n \in 1..MaxLines} :
                          ls[Len(ls)] # FormatLine(FALSE, "", "")}}

\* strconv.Atoi on the values of the ID lines: -1 stands for its error
Atoi(value) == CASE value = "1" -> 1 [] value = "2" -> 2 [] OTHER -> -1

\* parseField on the values of the field lines: a value without a space
\* before its first semicolon has no field type and name
parseField(value) == IF value = "x;" THEN "missing field type and name" ELSE ""

\* What parseFormatData returned, and etype.id
FormatParsed(err, id) == [err |-> err, id |-> id]

SliceBoundsPanic == "panic: runtime error: slice bounds out of range"

RECURSIVE parseFormatData(_, _, _)
\* parseFormatData, line after line: format[eol+1:] is past the end of a
\* last line without a newline; the error of an unexpected key is set and
\* the loop goes on, and return nil follows the loop
parseFormatData(lines, newline, id) ==
    IF lines = <<>> THEN FormatParsed("", id)
    ELSE LET line == Head(lines)
         IN  IF Len(lines) = 1 /\ ~newline THEN FormatParsed(SliceBoundsPanic, id)
             ELSE IF line = FormatLine(FALSE, "", "")
             THEN parseFormatData(Tail(lines), newline, id)
             ELSE IF ~line.colon THEN FormatParsed("missing ':'", id)
             ELSE IF line.key = "ID"
             THEN IF Atoi(line.value) = -1 THEN FormatParsed("invalid syntax", 0)
                  ELSE parseFormatData(Tail(lines), newline, Atoi(line.value))
             ELSE IF line.key = "field" /\ parseField(line.value) # ""
             THEN FormatParsed(parseField(line.value), id)
             ELSE parseFormatData(Tail(lines), newline, id)

\* newEventType on a format file: the check of the name, parseFormatFile
newEventTypeOf(path, file) ==
    IF ~SafeFtracePath(path) THEN FormatParsed(BadEvent, 0)
    ELSE IF ~file.readable THEN FormatParsed(osError(FALSE), 0)
    ELSE parseFormatData(file.lines, file.newline, 0)

\* What NewEventType returned and f.eventTypes after it
Registered(err, types) == [err |-> err, eventTypes |-> types]

\* ftrace.NewEventType
ftraceNewEventType(types, path, file) ==
    LET etype == newEventTypeOf(path, file)
    IN  IF etype.err # "" THEN Registered(etype.err, types)
        ELSE IF etype.id \in DOMAIN types
        THEN Registered("event id " \o ToString(etype.id) \o " already exists", types)
        ELSE Registered("", (etype.id :> Join(path)) @@ types)

EventPaths == {<<"a">>, <<"b">>, <<".", ".">>}

InitEventTypes ==
    /\ CaptureOff
    /\ PagesOff
    /\ ParseOff
    /\ PrintfOff
    /\ EvalOff
    /\ FilesOff

\* f.NewEventType(path), the FileProvider giving `file` for its format file
NewEventTypeOf(path, file) ==
    /\ fileResult.err # SliceBoundsPanic
    /\ fileCall' = FileCall("NewEventType", path)
    /\ fileResult' = FileResult(ftraceNewEventType(eventTypes, path, file).err,
                                newEventType(path, file.readable).accessed)
    /\ eventTypes' = ftraceNewEventType(eventTypes, path, file).eventTypes
    /\ UNCHANGED <<cparseVars, captureVars, pageVars>>

NextEventTypes == \E path \in EventPaths, file \in FormatFiles : NewEventTypeOf(path, file)

SpecEventTypes == InitEventTypes /\ [][NextEventTypes]_vars

\* ------------------------------------------------------------------------
\* Properties of the evaluator
\* ------------------------------------------------------------------------

Evaluated == result # NotEvaluated

\* expr is one of the operators `ops` applied to the fields a and b, both
\* integers
BinaryOnInts(ops) ==
    /\ expr.kind = "operatorExpression"
    /\ expr.args = <<VarA, VarB>>
    /\ expr.operator.val \in ops
    /\ ctx[1].ftype = "int"
    /\ ctx[2].ftype = "int"

FieldType(f) == IntType(f.size, f.signed)

\* The values of the two operands, as the fields decode
Operand1 == eventVariableGet(eventVariable(1), ctx)

Operand2 == eventVariableGet(eventVariable(2), ctx)

\* The common type of C's usual arithmetic conversions, as a table
CommonType(ta, tb) ==
    IF ta = intULongType \/ tb = intULongType THEN intULongType
    ELSE IF ta = intLongType \/ tb = intLongType THEN intLongType
    ELSE IF ta = intUIntType \/ tb = intUIntType THEN intUIntType
    ELSE intIntType

ArithmeticOps == {"+", "-", "*", "/", "%", "&", "^", "|"}

DivisionOps == {"/", "%"}

\* C1: for every pair of integer operand types and each of + - * / % & ^ |,
\* the result has the common type of the promoted, balanced operands (s32,
\* u32, s64 or u64 as the table says), whatever the operand order; the only
\* evaluation without an integer result is a division by zero.
C1_BalancedResultType ==
    (Evaluated /\ BinaryOnInts(ArithmeticOps)) =>
        IF IsInt(result.val)
        THEN result.val.intType = CommonType(FieldType(ctx[1]), FieldType(ctx[2]))
        ELSE /\ expr.operator.val \in DivisionOps
             /\ U64FromNat(0) = intClamp(Operand2.intVal,
                                         CommonType(FieldType(ctx[1]), FieldType(ctx[2])))

\* C1 witness: u32 * s64 has been evaluated to an s64, and so has s64 * u32
C1_Witness ==
    /\ Evaluated
    /\ BinaryOnInts({"*"})
    /\ {FieldType(ctx[1]), FieldType(ctx[2])} = {intUIntType, intLongType}
    /\ result.val.intType = intLongType
    /\ FieldType(ctx[1]) = intLongType

\* The value v converted to type t: clamped to t's width and sign-extended
ConvertTo(v, t) == intSignExtend(intClamp(v.intVal, t), t)

S32Field(p) == IntField(4, TRUE, p)

U32Field(p) == IntField(4, FALSE, p)

\* A concrete case: the fields a and b (in either order) and the result
PlusCase(fa, fb, typ, val) ==
    (BinaryOnInts({"+"}) /\ <<ctx[1], ctx[2]>> \in {<<fa, fb>>, <<fb, fa>>}) =>
        result.val = NewValueInt(val, typ.size, typ.signed)

\* C2: a + b is the sum modulo 2^64, clamped and sign-extended to the
\* balanced type, in either operand order; u32 0xffffffff + 1u is u32 0,
\* s32 0x7fffffff + s32 1 is INT32_MIN, s32 0x7fffffff + 1u is u32
\* 0x80000000, s64 INT64_MAX + s8 1 is INT64_MIN, u8 0xff + s32 1 is s32 0x100.
C2_AdditionWraps ==
    (Evaluated /\ BinaryOnInts({"+"})) =>
        LET t == CommonType(FieldType(ctx[1]), FieldType(ctx[2]))
            sum == U64Add(Operand1.intVal, Operand2.intVal)
        IN  /\ result.val = NewValueInt(intSignExtend(intClamp(sum, t), t), t.size, t.signed)
            /\ PlusCase(U32Field(AllOnes64), U32Field(One64), intUIntType, Zero64)
            /\ PlusCase(S32Field(MaxSignedPattern(4)), S32Field(One64), intIntType,
                        <<0, 0, 0, 128, 255, 255, 255, 255>>)
            /\ PlusCase(S32Field(MaxSignedPattern(4)), U32Field(One64), intUIntType,
                        <<0, 0, 0, 128, 0, 0, 0, 0>>)
            /\ PlusCase(IntField(8, TRUE, MaxSignedPattern(8)), IntField(1, TRUE, One64),
                        intLongType, <<0, 0, 0, 0, 0, 0, 0, 128>>)
            /\ PlusCase(IntField(1, FALSE, AllOnes64), S32Field(One64), intIntType,
                        <<0, 1, 0, 0, 0, 0, 0, 0>>)

\* C2 witness: s8 1 + s64 INT64_MAX has been evaluated and wrapped to INT64_MIN
C2_Witness ==
    /\ Evaluated
    /\ BinaryOnInts({"+"})
    /\ ctx[1] = IntField(1, TRUE, One64)
    /\ ctx[2] = IntField(8, TRUE, MaxSignedPattern(8))
    /\ result.val = NewValueInt(MinSignedPattern(8), 8, TRUE)

\* The claim's normal form of an Integer Value: an unsigned value has zero
\* bits above its width, a signed value with the sign bit set has one bits
Normalized(v) ==
    IF v.intType.signed
    THEN v.intVal[v.intType.size] >= 128 =>
            \A i \in Limbs : i > v.intType.size => v.intVal[i] = 255
    ELSE \A i \in Limbs : i > v.intType.size => v.intVal[i] = 0

\* C3: every Integer Value that results from parsing an integer literal, from
\* evaluating an operator or from a cast is normalized for its own type.
C3_IntegerValuesNormalized ==
    (/\ expr.kind \in {"constantExpression", "operatorExpression", "castExpression"}
     /\ Evaluated
     /\ IsInt(result.val)) => Normalized(result.val)

\* The magnitude of a signed 64-bit pattern, as an unsigned value
Magnitude(x) == IF I64Negative(x) THEN U64Neg(x) ELSE x

\* expr is a / b or a % b on integer fields with a signed common type, b # 0
SignedDivision(op) ==
    /\ BinaryOnInts({op})
    /\ CommonType(FieldType(ctx[1]), FieldType(ctx[2])).signed
    /\ Operand2.intVal # Zero64

S32(k) == S32Field(SmallPattern(k))

DivCase(a, b, op, val) ==
    (BinaryOnInts({op}) /\ ctx[1] = S32(a) /\ ctx[2] = S32(b)) =>
        result.val = NewValueInt(SmallPattern(val), 4, TRUE)

\* C4: on operands with a signed common type and b # 0, (a / b) * b + (a % b)
\* equals a in that type, |a % b| < |b| and a % b is zero or has the sign of
\* a; -8/3 == -2, -8%3 == -2, 8/-3 == -2, 8%-3 == 2, -8/-3 == 2, -8%-3 == -2.
C4_SignedDivisionTruncates ==
    Evaluated =>
        LET t == CommonType(FieldType(ctx[1]), FieldType(ctx[2]))
            a == ConvertTo(Operand1, t)
            b == ConvertTo(Operand2, t)
            q == IF expr.operator.val = "/" THEN result.val
                 ELSE OperatorApply(OpToken("/"), 2, Operand1, Operand2, ZeroValue)
            r == IF expr.operator.val = "%" THEN result.val
                 ELSE OperatorApply(OpToken("%"), 2, Operand1, Operand2, ZeroValue)
        IN  /\ (SignedDivision("/") \/ SignedDivision("%")) =>
                /\ IsInt(q) /\ q.intType = t
                /\ IsInt(r) /\ r.intType = t
                /\ intSignExtend(intClamp(U64Add(U64Mul(q.intVal, b), r.intVal), t), t) = a
                /\ U64Less(Magnitude(r.intVal), Magnitude(b))
                /\ r.intVal = Zero64 \/ I64Negative(r.intVal) = I64Negative(a)
            /\ DivCase(-8, 3, "/", -2) /\ DivCase(-8, 3, "%", -2)
            /\ DivCase(8, -3, "/", -2) /\ DivCase(8, -3, "%", 2)
            /\ DivCase(-8, -3, "/", 2) /\ DivCase(-8, -3, "%", -2)

\* C4 witness: -8 % -3 has been evaluated to -2
C4_Witness ==
    /\ Evaluated
    /\ SignedDivision("%")
    /\ ctx[1] = S32(-8)
    /\ ctx[2] = S32(-3)
    /\ result.val = NewValueInt(SmallPattern(-2), 4, TRUE)

\* The claim's promotion: a type narrower than 4 bytes becomes 4-byte signed
PromotedType(t) == IF t.size < 4 THEN intIntType ELSE t

\* The count of a shift is less than the width of type t
CountInRange(n, t) == n[1] < 8 * t.size /\ \A i \in 2..8 : n[i] = 0

\* x >> n with the vacated bits filled with the sign bit of x
ArithmeticShift(x, n) ==
    IF I64Negative(x) THEN U64Not(U64ShrSmall(U64Not(x), n)) ELSE U64ShrSmall(x, n)

\* C5: a shift has the promoted type of its left operand, whatever the type
\* of the count; >> is logical on an unsigned left operand and fills the
\* vacated bits with the sign bit on a signed one ((s32)-8 >> 1 is -4).
C5_RightShiftArithmetic ==
    (Evaluated /\ BinaryOnInts({"<<", ">>"})) =>
        LET t == PromotedType(FieldType(ctx[1]))
            n == Operand2.intVal
        IN  /\ IsInt(result.val)
            /\ result.val.intType = t
            /\ (expr.operator.val = ">>" /\ CountInRange(n, t)) =>
                 result.val.intVal =
                    IF t.signed THEN ArithmeticShift(Operand1.intVal, n[1])
                    ELSE U64ShrSmall(Operand1.intVal, n[1])
            /\ (expr.operator.val = ">>" /\ ctx[1] = S32(-8) /\ ctx[2] = S32(1)) =>
                 result.val = NewValueInt(SmallPattern(-4), 4, TRUE)

\* The position of a value in the order of type t: the bytes of its width
\* with, for a signed type, the sign bit inverted
OrderKey(x, t) ==
    [i \in 1..t.size |-> IF i = t.size /\ t.signed THEN (x[i] + 128) % 256 ELSE x[i]]

RECURSIVE KeyLess(_, _, _)
\* Keys x and y agree above byte k, and x is less than y on the bytes 1..k
KeyLess(x, y, k) ==
    IF k = 0 THEN FALSE
    ELSE IF x[k] # y[k] THEN x[k] < y[k]
    ELSE KeyLess(x, y, k - 1)

\* The C comparison x op y of two values of type t
CCompare(op, x, y, t) ==
    LET less == KeyLess(OrderKey(x, t), OrderKey(y, t), t.size)
        more == KeyLess(OrderKey(y, t), OrderKey(x, t), t.size)
    IN  CASE op = "<" -> less
          [] op = "<=" -> ~more
          [] op = ">" -> more
          [] op = ">=" -> ~less
          [] op = "==" -> ~less /\ ~more
          [] op = "!=" -> less \/ more

\* e is a constant that newOperatorExpression folded from an operator
IsFolded(e) == e.kind = "constantExpression" /\ e.exp.kind = "operatorExpression"

ComparisonOps == {"<", "<=", ">", ">=", "==", "!="}

CompareCase(fa, op, fb, holds) ==
    (BinaryOnInts({op}) /\ ctx[1] = fa /\ ctx[2] = fb) => AsBool(result.val) = holds

IsTernary(e) ==
    /\ e.kind = "operatorExpression"
    /\ e.operator.val = "?"
    /\ Len(e.args) = 3

\* A Value but for its integer type, which a conversion changes
Untyped(v) == [v EXCEPT !.intType = NoIntType]

\* C7: in a ? b : c with an integer a, the value is the value of the chosen
\* arm (b when a is non-zero, c when a is zero) whatever the other arm would
\* evaluate to, and only a and the chosen arm call their handles.
C7_TernaryChosenArmOnly ==
    (Evaluated /\ IsTernary(expr)) =>
        LET cond == Eval(expr.args[1], ctx)
            arm == Eval(expr.args[IF AsBool(cond.val) THEN 2 ELSE 3], ctx)
        IN  IsInt(cond.val) =>
                /\ Untyped(result.val) = Untyped(arm.val)
                /\ result.calls = cond.calls \o arm.calls

\* The operands or arguments of an operator or a function call
HasOperands(e) == e.kind \in {"operatorExpression", "functionExpression"}

\* The operands of expr that evaluate to an Error
ErrorOperands == {i \in 1..Len(expr.args) : IsError(ExprValue(expr.args[i], ctx))}

LeftmostError == CHOOSE i \in ErrorOperands : \A j \in ErrorOperands : i <= j

\* C8: when an operand of an operator or an argument of a function call
\* (the printf wrapper included) evaluates to an Error, the value of the
\* expression is the leftmost such Error, unchanged, and the function is
\* not called.
C8_ErrorPropagates ==
    (Evaluated /\ HasOperands(expr) /\ ErrorOperands # {}) =>
        /\ result.val = ExprValue(expr.args[LeftmostError], ctx)
        /\ expr.kind = "functionExpression" =>
              \A i \in 1..Len(result.calls) : result.calls[i] # expr.name

\* C8 witness: printf has been given two unknown variables and the value is
\* the Error of the first
C8_Witness ==
    /\ Evaluated
    /\ expr = CallFunction(printfFunction("%d %d"), "f", <<UnknownX, UnknownY>>)
    /\ ErrorOperands = {1, 2}
    /\ result.val = NewValueError("unknown variable x")
    /\ result.calls = <<>>

\* ------------------------------------------------------------------------
\* The parse tree of a C parser, written as the fully parenthesized text
\* that Dump gives for a tree: precedence climbing over the tokens
\* ------------------------------------------------------------------------

\* The level of a binary operator in C, 1 binding tightest; 0 for any other
\* token
RefLevelOf(typ) ==
    CASE typ \in {"tokenMult", "tokenDiv", "tokenMod"} -> 1
      [] typ \in {"tokenPlus", "tokenMinus"} -> 2
      [] typ \in {"tokenLeftShift", "tokenRightShift"} -> 3
      [] typ \in {"tokenLess", "tokenLessEqual", "tokenGreater", "tokenGreaterEqual"} -> 4
      [] typ \in {"tokenEqual", "tokenNotEqual"} -> 5
      [] typ = "tokenAnd" -> 6
      [] typ = "tokenXor" -> 7
      [] typ = "tokenOr" -> 8
      [] typ = "tokenBoolAnd" -> 9
      [] typ = "tokenBoolOr" -> 10
      [] OTHER -> 0

RefFail == [ok |-> FALSE, s |-> "", pos |-> 0]

RefOk(s, pos) == [ok |-> TRUE, s |-> s, pos |-> pos]

RefTyp(toks, pos) == IF pos \in 1..Len(toks) THEN toks[pos].typ ELSE "tokenNone"

\* The names of types: the typedef t of the scope and the keyword int, both
\* the 32-bit signed integer type
RefTypeNames == {"t", "int"}

RefIsTypeName(toks, pos) ==
    RefTyp(toks, pos) = "tokenSymbol" /\ toks[pos].val \in RefTypeNames

RefIsVariable(toks, pos) ==
    RefTyp(toks, pos) = "tokenSymbol" /\ toks[pos].val \in {OperandNames[i] : i \in 1..Len(OperandNames)}

RECURSIVE RefUnary(_, _)
RECURSIVE RefBinary(_, _, _)
RECURSIVE RefBinaryRest(_, _, _)
RECURSIVE RefConditional(_, _)

\* unary-expression and cast-expression: a unary operator or a cast applies
\* to the unary or cast expression that follows it
RefUnary(toks, pos) ==
    IF RefTyp(toks, pos) \in {"tokenPlus", "tokenMinus", "tokenNot", "tokenBoolNot"}
    THEN LET u == RefUnary(toks, pos + 1)
         IN  IF u.ok THEN RefOk("(" \o toks[pos].val \o u.s \o ")", u.pos) ELSE RefFail
    ELSE IF RefTyp(toks, pos) = "tokenLeftParen" /\ RefIsTypeName(toks, pos + 1)
    THEN IF RefTyp(toks, pos + 2) # "tokenRightParen" THEN RefFail
         ELSE LET u == RefUnary(toks, pos + 3)
              IN  IF u.ok THEN RefOk("(int32)" \o u.s, u.pos) ELSE RefFail
    ELSE IF RefTyp(toks, pos) = "tokenLeftParen"
    THEN LET e == RefConditional(toks, pos + 1)
         IN  IF e.ok /\ RefTyp(toks, e.pos) = "tokenRightParen"
             THEN RefOk(e.s, e.pos + 1) ELSE RefFail
    ELSE IF RefIsVariable(toks, pos) THEN RefOk(toks[pos].val, pos + 1)
    ELSE RefFail

\* The operators of one level after the operand left, left to right
RefBinaryRest(toks, left, level) ==
    IF RefLevelOf(RefTyp(toks, left.pos)) # level THEN left
    ELSE LET right == RefBinary(toks, left.pos + 1, level - 1)
         IN  IF ~right.ok THEN RefFail
             ELSE RefBinaryRest(toks,
                      RefOk("(" \o left.s \o " " \o toks[left.pos].val \o " " \o right.s \o ")",
                            right.pos),
                      level)

\* An expression of the operators of the levels up to level
RefBinary(toks, pos, level) ==
    IF level = 0 THEN RefUnary(toks, pos)
    ELSE LET left == RefBinary(toks, pos, level - 1)
         IN  IF ~left.ok THEN RefFail ELSE RefBinaryRest(toks, left, level)

\* conditional-expression: binary ? expression : conditional-expression
RefConditional(toks, pos) ==
    LET c == RefBinary(toks, pos, RefLevelOf("tokenBoolOr"))
    IN  IF ~c.ok \/ RefTyp(toks, c.pos) # "tokenQuestion" THEN c
        ELSE LET m == RefConditional(toks, c.pos + 1)
             IN  IF ~m.ok \/ RefTyp(toks, m.pos) # "tokenColon" THEN RefFail
                 ELSE LET r == RefConditional(toks, m.pos + 1)
                      IN  IF ~r.ok THEN RefFail
                          ELSE RefOk("(" \o c.s \o " ? " \o m.s \o " : " \o r.s \o ")", r.pos)

\* The whole of the tokens as one expression
RefParse(toks) ==
    LET r == RefConditional(toks, 1)
    IN  IF r.ok /\ r.pos = Len(toks) + 1 THEN r ELSE RefFail

\* ------------------------------------------------------------------------
\* Properties of the parser
\* ------------------------------------------------------------------------

HasParsed == parsed # NotParsed

\* Parse returned one expression and no error
Accepted == HasParsed /\ parsed.err = "" /\ Len(parsed.expressions) = 1

\* The dump of the tree that Parse returned
ParsedDump == Dump(parsed.expressions[1])

\* Operands and operators in turn: operand, operator, operand, ...
IsInfix(toks) ==
    /\ Len(toks) % 2 = 1
    /\ \A i \in 1..Len(toks) :
           IF i % 2 = 1 THEN RefIsVariable(toks, i)
           ELSE toks[i].typ \in {OpToken(o).typ : o \in InfixOps}

\* C9: for every sequence of operands and operators that Parse accepts, the
\* tree it returns is the tree of a C parser: the binary operators bind by
\* the levels of C, left to right within a level, the ternary operator binds
\* loosest and to the right; a * b / c % d is (((a * b) / c) % d) and
\* a ? b ? c : d : e is (a ? (b ? c : d) : e).  A sequence with operators
\* that Parse rejects is one a C parser rejects.
C9_TreeEqualsReference ==
    (HasParsed /\ IsInfix(tokens)) =>
        /\ parsed.err = "" =>
               /\ Len(parsed.expressions) = 1
               /\ RefParse(tokens).ok
               /\ ParsedDump = RefParse(tokens).s
        /\ parsed.err # "" => ~RefParse(tokens).ok
        /\ tokens = MultDivMod => Accepted /\ ParsedDump = "(((a * b) / c) % d)"
        /\ tokens = NestedTernary => Accepted /\ ParsedDump = "(a ? (b ? c : d) : e)"

\* A ternary between binary operators has been parsed
C9_Witness ==
    /\ Accepted
    /\ tokens = Infix(<<"||", "?", "||", ":", "||">>)
    /\ ParsedDump = "((a || b) ? (c || d) : (e || g))"

\* C10: + and - are unary only when no value precedes them, and a type in
\* parentheses is a cast of the operand that follows it, resolved right to
\* left together with the unary operators: whatever a C parser accepts of
\* unary operators, casts, parentheses and binary operators, Parse accepts
\* with the same tree; (t)-b is (int32)(-b), (a)-b is (a - b) and a + + b is
\* (a + (+b)).
C10_UnaryAndCastOperands ==
    HasParsed =>
        /\ RefParse(tokens).ok => Accepted /\ ParsedDump = RefParse(tokens).s
        /\ tokens = CastMinus => Accepted /\ ParsedDump = "(int32)(-b)"
        /\ tokens = ParenMinus => Accepted /\ ParsedDump = "(a - b)"
        /\ tokens = PlusPlus => Accepted /\ ParsedDump = "(a + (+b))"

\* ------------------------------------------------------------------------
\* Properties of integer literals
\* ------------------------------------------------------------------------

\* A literal has been parsed on its own
LiteralParsed == literal # <<>> /\ expr # NilExpression

IsSuffixChar(c) == c \in {"u", "U", "l", "L"}

\* The number of characters of the literal s before its u and l suffix
RECURSIVE DigitsLen(_)
DigitsLen(s) ==
    IF s # <<>> /\ IsSuffixChar(s[Len(s)]) THEN DigitsLen(SubSeq(s, 1, Len(s) - 1))
    ELSE Len(s)

LiteralSuffix(s) == SubSeq(s, DigitsLen(s) + 1, Len(s))

CountOf(s, cs) == Cardinality({i \in 1..Len(s) : s[i] \in cs})

\* The suffixes of C, in either case: at most one u, at most two l, the l
\* together
IsCSuffix(x) ==
    /\ CountOf(x, {"u", "U"}) <= 1
    /\ CountOf(x, {"l", "L"}) <= 2
    /\ ~(Len(x) = 3 /\ x[2] \in {"u", "U"})

\* The type that the suffix x names
CSuffixType(x) ==
    IntType(IF CountOf(x, {"l", "L"}) = 0 THEN 4 ELSE 8, CountOf(x, {"u", "U"}) = 0)

\* The base of the digits of the literal s, and its digits without the prefix
LiteralBase(s) ==
    LET n == DigitsLen(s)
    IN  IF n >= 3 /\ s[1] = "0" /\ s[2] \in {"x", "X"} THEN 16
        ELSE IF n >= 2 /\ s[1] = "0" THEN 8
        ELSE 10

LiteralDigits(s) ==
    SubSeq(s, (CASE LiteralBase(s) = 16 -> 3 [] LiteralBase(s) = 8 -> 2 [] OTHER -> 1),
           DigitsLen(s))

\* The value of a digit of C, 16 for any other character
CDigit(c) ==
    CASE c = "0" -> 0 [] c = "1" -> 1 [] c = "2" -> 2 [] c = "3" -> 3 [] c = "4" -> 4
      [] c = "5" -> 5 [] c = "6" -> 6 [] c = "7" -> 7 [] c = "8" -> 8 [] c = "9" -> 9
      [] c \in {"a", "A"} -> 10 [] c \in {"b", "B"} -> 11 [] c \in {"c", "C"} -> 12
      [] c \in {"d", "D"} -> 13 [] c \in {"e", "E"} -> 14 [] c \in {"f", "F"} -> 15
      [] OTHER -> 16

\* The digits of the greatest value of `bits` bits in a base
MaxDigitsOf(base, bits) ==
    CASE base = 16 -> [i \in 1..(bits \div 4) |-> 15]
      [] base = 8 /\ bits = 32 -> <<3>> \o [i \in 1..10 |-> 7]
      [] base = 8 /\ bits = 64 -> <<1>> \o [i \in 1..21 |-> 7]
      [] base = 10 /\ bits = 32 -> <<4, 2, 9, 4, 9, 6, 7, 2, 9, 5>>
      [] base = 10 /\ bits = 64 ->
            <<1, 8, 4, 4, 6, 7, 4, 4, 0, 7, 3, 7, 0, 9, 5, 5, 1, 6, 1, 5>>

\* ds is no greater than ms, digit by digit from the left, for sequences of
\* one length
RECURSIVE DigitsLeq(_, _)
DigitsLeq(ds, ms) ==
    \/ ds = <<>>
    \/ ds[1] < ms[1]
    \/ ds[1] = ms[1] /\ DigitsLeq(Tail(ds), Tail(ms))

RECURSIVE StripZeros(_)
StripZeros(ds) == IF ds # <<>> /\ ds[1] = 0 THEN StripZeros(Tail(ds)) ELSE ds

\* The digits ds of a base are a value of `bits` bits
DigitsFit(ds, base, bits) ==
    LET sig == StripZeros(ds)
        max == MaxDigitsOf(base, bits)
    IN  \/ Len(sig) < Len(max)
        \/ Len(sig) = Len(max) /\ DigitsLeq(sig, max)

\* The value of the digits ds of a base, for digits that fit 64 bits
RECURSIVE DigitsValue(_, _, _)
DigitsValue(ds, base, acc) ==
    IF ds = <<>> THEN acc
    ELSE DigitsValue(Tail(ds), base, U64Add(U64Mul(acc, U64FromNat(base)), U64FromNat(ds[1])))

\* The literal s is an integer literal of C with digits that fit the type of
\* its suffix
IsCLiteral(s) ==
    LET ds == [i \in 1..Len(LiteralDigits(s)) |-> CDigit(LiteralDigits(s)[i])]
    IN  /\ s[1] # "\""
        /\ IsCSuffix(LiteralSuffix(s))
        /\ ds # <<>>
        /\ \A i \in 1..Len(ds) : ds[i] < LiteralBase(s)
        /\ DigitsFit(ds, LiteralBase(s), CSuffixType(LiteralSuffix(s)).size * 8)

CLiteralValue(s) ==
    DigitsValue([i \in 1..Len(LiteralDigits(s)) |-> CDigit(LiteralDigits(s)[i])],
                LiteralBase(s), Zero64)

Literal0xff == <<"0", "x", "f", "f">>

Literal077 == <<"0", "7", "7">>

LiteralMaxLLU == <<"0", "x">> \o Repeat("f", 16) \o <<"L", "L", "U">>

\* C11: an integer literal has the width and the signedness that its suffix
\* names, in either case and either order of u and l (none: 4 bytes signed,
\* U: 4 bytes unsigned, L and LL: 8 bytes signed, UL, LU, ULL, LLU: 8 bytes
\* unsigned), and the value of its digits read as decimal, as hexadecimal
\* after 0x, as octal after a leading 0; 0xff is 255, 077 is 63 and
\* 0xffffffffffffffffLLU is 18446744073709551615.
C11_LiteralTypeFromSuffix ==
    LiteralParsed =>
        /\ IsCLiteral(literal) =>
               /\ IsInt(expr.val)
               /\ expr.val.intType = CSuffixType(LiteralSuffix(literal))
               /\ expr.val.intVal = CLiteralValue(literal)
        /\ (literal[1] # "\"" /\ IsInt(expr.val)) =>
               expr.val.intType = CSuffixType(LiteralSuffix(literal))
        /\ literal = Literal0xff => Dump(expr) = "(int32)255"
        /\ literal = Literal077 => Dump(expr) = "(int32)63"
        /\ literal = LiteralMaxLLU => Dump(expr) = "(uint64)18446744073709551615"

\* The greatest literal has been parsed, with its suffix in capitals
C11_Witness ==
    /\ LiteralParsed
    /\ literal = LiteralMaxLLU
    /\ IsCLiteral(literal)
    /\ expr.val = NewValueInt(AllOnes64, 8, FALSE)

\* ------------------------------------------------------------------------
\* Properties of Parse on an input text
\* ------------------------------------------------------------------------

\* The lexer reported an error on the input
LexerError == \E i \in 1..Len(tokens) : tokens[i].typ = "tokenError"

\* C12: Parse returns an error and no expressions for every input on which
\* the lexer reports an error (an unterminated string, a character that
\* starts no token), wherever the offending text stands in the input and
\* also when it is the only text of the input.
C12_LexerErrorIsParseError ==
    (HasParsed /\ LexerError) => (parsed.err # "" /\ parsed.expressions = <<>>)

\* ------------------------------------------------------------------------
\* Properties of the printf adapter
\* ------------------------------------------------------------------------

PrintfCalled == printfErr # NotCalled

\* The width of the argument of an integer conversion in C, by its length
\* modifier
CLengthSize(length) ==
    CASE length = <<"h", "h">> -> 1
      [] length = <<"h">> -> 2
      [] length = <<>> -> 4
      [] OTHER -> 8

IntegerConversions == {"d", "i", "u", "x", "X", "o"}

\* The conversion of fmt.Sprintf for an integer conversion of C
HostConversion(c) == IF c \in {"i", "u"} THEN "d" ELSE c

\* The cast that an integer conversion puts on its argument
ConversionCast(arg, length, c) == CastExpression(arg, CLengthSize(length), c \in {"d", "i"})

\* NewPrintfFunction gave the printf call of format with the arguments args
PrintfIs(format, args) ==
    /\ printfErr = ""
    /\ expr = CallFunction(printfFunction(Join(format)), "printf", args)

\* C13: an integer conversion (d, i, u, x, X, o) casts its argument to the
\* width of its length modifier (hh 1, h 2, none 4, l, ll and z 8), signed
\* exactly for d and i, and is given to the host with the length modifier
\* removed and the flags, width and precision kept; each conversion takes
\* exactly one argument
C13_IntegerConversionsCast ==
    PrintfCalled =>
        /\ \A prefix \in {<<>>, <<"a", "=">>}, flags \in FormatFlags, length \in LengthModifiers,
              c \in IntegerConversions, suffix \in {<<>>, <<" ">>} :
              printfArgs = <<FormatConstant(prefix \o Conv(flags, length, c) \o suffix), VarA>>
                  => PrintfIs(prefix \o <<"%">> \o flags \o <<HostConversion(c)>> \o suffix,
                              <<ConversionCast(VarA, length, c)>>)
        /\ \A l1 \in {<<>>, <<"l">>}, l2 \in {<<>>, <<"h">>},
              c1 \in IntegerConversions, c2 \in IntegerConversions :
              printfArgs = <<FormatConstant(Conv(<<>>, l1, c1) \o <<" ">> \o Conv(<<>>, l2, c2)),
                             VarA, VarB>>
                  => PrintfIs(<<"%", HostConversion(c1), " ", "%", HostConversion(c2)>>,
                              <<ConversionCast(VarA, l1, c1), ConversionCast(VarB, l2, c2)>>)


\* The address in the second field of the event is one that kallsyms has
KnownAddress == DecodeUint(ctx[2].contents, 8) \in DOMAIN cachedKallsyms

\* C14: with the hook of the event types, each of %pf, %pF and %pK takes the
\* character after p, has its argument replaced by a call to __printk_pf,
\* __printk_pF or __printk_pK, and becomes %s, so that the text rendered is
\* the kallsyms name of the address
C14_PointerConversionsCallKernel ==
    \A m \in {"f", "F", "K"} :
        (PrintfCalled /\ callback = "mungePrintfConversions"
            /\ printfArgs = <<FormatConstant(<<"%", "p", m>>), VarB, VarA>>)
        => /\ PrintfIs(<<"%", "s">>,
                       <<CallFunction(eventFunction("__printk_p" \o m), "__printk_p" \o m, <<VarB>>),
                         VarA>>)
           /\ (Evaluated /\ KnownAddress)
                => result.val.listVal[1]
                       = <<"string", cachedKallsyms[DecodeUint(ctx[2].contents, 8)]>>


\* ------------------------------------------------------------------------
\* Properties of __get_str
\* ------------------------------------------------------------------------

\* __get_str(REC->a) has been evaluated on the event
GetStrCalled == Evaluated /\ expr = GetStrCall

\* The integer i that the __data_loc field holds, as an int64
DataLoc ==
    IF ctx[1].signed THEN DecodeInt(ctx[1].contents, ctx[1].size)
    ELSE DecodeUint(ctx[1].contents, ctx[1].size)

\* offset = i & 0xffff
DataLocOffset == DataLoc[1] + 256 * DataLoc[2]

\* length = i >> 16 is negative, or is at least 2^24, or its value
DataLocNegative == DataLoc[8] >= 128

DataLocHuge == ~DataLocNegative /\ (DataLoc[6] # 0 \/ DataLoc[7] # 0 \/ DataLoc[8] # 0)

DataLocLength == DataLoc[3] + 256 * DataLoc[4] + 65536 * DataLoc[5]

\* The bytes of [offset, offset+length) up to the first zero byte, as text
DataLocText ==
    LET bytes == SubSeq(EventContents(ctx), DataLocOffset + 1, DataLocOffset + DataLocLength)
        zeros == {k \in 1..Len(bytes) : bytes[k] = 0}
        end   == IF zeros = {} THEN Len(bytes)
                 ELSE (CHOOSE k \in zeros : \A j \in zeros : k <= j) - 1
    IN  ByteString(SubSeq(bytes, 1, end))

\* C15: for every integer i, __get_str(i) is an Error when the bytes
\* [i & 0xffff, (i & 0xffff) + (i >> 16)) are not all inside the raw record
\* of the event, and otherwise the text of those bytes up to the first zero
\* byte (for a range with no bytes: an Error or the empty text)
C15_GetStrInsideRecord ==
    GetStrCalled =>
        IF DataLocNegative \/ (~DataLocHuge /\ DataLocLength = 0)
        THEN IsError(result.val) \/ result.val = NewValueString("")
        ELSE IF DataLocHuge \/ DataLocOffset + DataLocLength > Len(EventContents(ctx))
        THEN IsError(result.val)
        ELSE result.val = NewValueString(DataLocText)


\* ------------------------------------------------------------------------
\* Properties of the capture
\* ------------------------------------------------------------------------

\* The pages of a cpu that were read before the done signal
PagesBeforeDone(cpu) == IF done THEN readAtDone[cpu] ELSE pagesRead[cpu]

\* The pages of a cpu that are read and on their way to the callback: the
\* one that the reader has to publish and the one that the decoder has to send
PagesOnTheWay(cpu) ==
    (IF reader[cpu].pc = "select" THEN 1 ELSE 0) + (IF decoder[cpu].pc = "send" THEN 1 ELSE 0)

\* C16, as the specification states it: when Capture has returned, every
\* page that was read from the raw pipe of a cpu before the done signal has
\* been passed to the callback
C16_PagesBeforeDoneDelivered ==
    capture.pc = "returned" => \A cpu \in Cpus : Len(delivered[cpu]) >= PagesBeforeDone(cpu)

\* C16, amended: for every cpu the callback is called with the events of
\* the pages of its raw pipe in the order in which they were read, once for
\* each page and with no page left out before a later one; until the decoder
\* of the cpu has stopped, every page read is either passed to the callback
\* or on its way to it; and the callback never runs twice at the same time.
\* The pages on their way when the done signal comes may never be passed
C16_PagesInReadOrderOnce ==
    /\ running <= 1
    /\ \A cpu \in Cpus :
        /\ Len(delivered[cpu]) <= pagesRead[cpu]
        /\ \A k \in 1..Len(delivered[cpu]) : delivered[cpu][k] = PageEvents(cpu, k)
        /\ ~eventChClosed(cpu) => pagesRead[cpu] = Len(delivered[cpu]) + PagesOnTheWay(cpu)

\* Before the done signal, the callback has had two pages of every cpu and
\* is running on the second page of the last one
C16_Witness ==
    /\ ~done
    /\ running = 1
    /\ \A cpu \in Cpus : Len(delivered[cpu]) >= 2

\* C17: once the done signal is raised, every decoder eventually returns,
\* its event channel and the done channel of its reader closed
C17_DecodersReturn == done ~> (\A cpu \in Cpus : decoder[cpu].pc = "returned")

\* C18: a reader that observes its done channel when it is about to publish
\* a page stops there: it closes the pipe and its page channel, and reads
\* no more
C18_ReaderStopsOnDone ==
    [][\A cpu \in Cpus :
          (reader[cpu].pc = "select" /\ rawDoneClosed(cpu) /\ reader'[cpu] # reader[cpu])
              => reader'[cpu].pc = "closed"]_vars


\* ------------------------------------------------------------------------
\* Properties of the pages
\* ------------------------------------------------------------------------

\* An entry whose event is handed on: its type id is known and its data is
\* as long as the event type
Delivered(e) == (e.kind = "data" /\ e.typeId = 1) \/ (e.kind = "long" /\ e.typeId \in {1, 3})

\* The timestamps of the events of the entries es of a page, the time
\* before them being when: every data entry adds its delta, every time
\* extend its delta and its extension
RECURSIVE EventTimes(_, _)
EventTimes(when, es) ==
    IF es = <<>> \/ Head(es).kind = "end" THEN <<>>
    ELSE IF Head(es).kind = "discarded" THEN EventTimes(when, Tail(es))
    ELSE IF Head(es).kind = "ext"
    THEN EventTimes(U64Add(U64Add(when, Head(es).delta), U64Mul(Head(es).ext, <<0, 0, 0, 8, 0, 0, 0, 0>>)),
                    Tail(es))
    ELSE (IF Delivered(Head(es)) THEN <<U64Add(when, Head(es).delta)>> ELSE <<>>)
         \o EventTimes(U64Add(when, Head(es).delta), Tail(es))

\* The timestamps of the events that decodePage gave for page k
DecodedTimes(k) == [i \in 1..Len(pageEvents[k].events) |-> pageEvents[k].events[i].When]

\* The timestamps of the events of the pages decoded, in the order in which
\* the consumer gets them
RECURSIVE AllDecodedTimes(_)
AllDecodedTimes(k) == IF k = 0 THEN <<>> ELSE AllDecodedTimes(k - 1) \o DecodedTimes(k)

FileCalled == fileResult # FileNotCalled

\* The path of the call has a component that is ..
HasDotDot == \E i \in 1..Len(SplitOn(fileCall.path, "/", <<>>)) :
                 SplitOn(fileCall.path, "/", <<>>)[i] = <<".", ".">>

\* C20: a read, a write or an open of an ftrace path, and the creation of
\* an event type, is rejected with the error of a bad name and accesses no
\* file when the path has a component that is .., as events/../../x has
C20_DotDotRejected ==
    (FileCalled /\ HasDotDot)
        => /\ fileResult.err \in {BadFtraceFileName, BadEvent}
           /\ fileResult.accessed = NoFile

\* ------------------------------------------------------------------------
\* An expression evaluated twice
\* ------------------------------------------------------------------------

\* A step that evaluates the expression
ValueStep == result' # result \/ again' # again

\* Contexts other than the one of the evaluation, nil among them
OtherContexts ==
    {NilContext, <<IntField(8, FALSE, AllOnes64), CharField("R"), IntField(1, TRUE, One64)>>}

\* The second evaluation returns what the first returned
SecondEqualsFirst == again' # again => again' = result

\* A constant expression has the value it has in every other context
ConstantInEveryContext ==
    (result' # result /\ expr.constant)
        => \A c \in OtherContexts : ExprValue(expr, c) = result'.val

\* C21: evaluating the same expression again with the same context returns
\* a Value equal to the first, a constant expression returns the same Value
\* for every context, nil included, and an evaluation changes neither the
\* expression nor any state that a later evaluation reads
C21_EvaluationChangesNoState ==
    [][/\ SecondEqualsFirst
       /\ ConstantInEveryContext
       /\ ValueStep => (expr' = expr /\ ctx' = ctx /\ kallsyms' = kallsyms)]_vars

\* C21 (amended): evaluating the same expression again with the same context
\* returns a Value equal to the first, a constant expression returns the
\* same Value for every context, nil included, and an evaluation changes
\* neither the expression nor the context; of the state that a later
\* evaluation reads it changes only the kallsyms cache of the ftrace, which
\* the first call of a pointer helper fills and no evaluation changes again
C21_SecondValueEqualsFirst ==
    [][/\ SecondEqualsFirst
       /\ ConstantInEveryContext
       /\ ValueStep => /\ expr' = expr /\ ctx' = ctx
                       /\ kallsyms'.file = kallsyms.file
                       /\ kallsyms.cachedKallsyms # "nil" => kallsyms' = kallsyms]_vars

\* A pointer helper was evaluated twice and /proc/kallsyms changed after
\* the first evaluation
C21_Witness ==
    /\ again # NotEvaluated
    /\ expr \in PointerCalls \cup PointerPrintfs
    /\ kallsyms.cachedKallsyms = "v1"
    /\ kallsyms.file = "v2"
    /\ IsString(again.val)
    /\ ctx[2] = IntField(8, FALSE, U64FromNat(1))

\* --- entries that are dropped

\* An entry of data whose event is not handed on: its type id is unknown,
\* or its data is shorter than the event type
Dropped(e) == e.kind \in {"data", "long"} /\ ~Delivered(e)

\* The entries of a page up to the padding that ends it
RECURSIVE BeforeEnd(_)
BeforeEnd(es) ==
    IF es = <<>> \/ Head(es).kind = "end" THEN <<>> ELSE <<Head(es)>> \o BeforeEnd(Tail(es))

\* The type ids of the entries of es whose events are handed on, in order
RECURSIVE DeliveredTypes(_)
DeliveredTypes(es) ==
    IF es = <<>> THEN <<>>
    ELSE (IF Delivered(Head(es)) THEN <<Head(es).typeId>> ELSE <<>>) \o DeliveredTypes(Tail(es))

\* The type ids of the events that decodePage gave for page k
DecodedTypes(k) == [i \in 1..Len(pageEvents[k].events) |-> pageEvents[k].events[i].etype]

\* The errors that an entry leaves behind when it is dropped
LazyErrors == {BadEventData} \cup {"unknown type ID: " \o ToString(id) : id \in 0..3}

\* C23: a data entry with an unknown type id, or with a record shorter than
\* its event type, is dropped and the page goes on: every later entry with a
\* known type is emitted, with a timestamp that counts the time_delta of the
\* dropped entry, and decodePage returns the events with a lazy error
C23_DroppedEntryKeepsPage ==
    \A k \in 1..Len(pageEvents) :
        (\E i \in 1..Len(BeforeEnd(rawPages[k].entries)) :
                Dropped(BeforeEnd(rawPages[k].entries)[i]))
            => /\ DecodedTypes(k) = DeliveredTypes(BeforeEnd(rawPages[k].entries))
               /\ DecodedTimes(k) = EventTimes(rawPages[k].timestamp, rawPages[k].entries)
               /\ pageEvents[k].err \in LazyErrors

\* A page is decoded whose first entry is dropped with a time_delta and
\* whose second entry is emitted
C23_Witness ==
    /\ Len(pageEvents) >= 1
    /\ Len(rawPages[1].entries) = 2
    /\ Dropped(rawPages[1].entries[1])
    /\ rawPages[1].entries[1].delta = One64
    /\ Delivered(rawPages[1].entries[2])
    /\ Len(pageEvents[1].events) = 1
    /\ pageEvents[1].err \in LazyErrors

\* --- a time extend and one event

\* The first entry of the page is a time extend and one data event follows
\* it, whose type is known and whose record is long enough
ExtendThenEvent(page) ==
    /\ Len(BeforeEnd(page.entries)) = 2
    /\ page.entries[1].kind = "ext"
    /\ Delivered(page.entries[2])

\* delta_lo | (delta_hi << 27) of a time extend
ExtendedDelta(e) == U64Add(e.delta, U64Mul(e.ext, <<0, 0, 0, 8, 0, 0, 0, 0>>))

\* C24: a page whose first entry is a time extend followed by one data
\* event gives exactly one Event, whose timestamp is the timestamp of the
\* page plus delta_lo | (delta_hi << 27)
C24_ExtendedTimestamp ==
    \A k \in 1..Len(pageEvents) :
        ExtendThenEvent(rawPages[k])
            => /\ Len(pageEvents[k].events) = 1
               /\ pageEvents[k].events[1].When
                      = U64Add(rawPages[k].timestamp, ExtendedDelta(rawPages[k].entries[1]))

\* C24 (amended): a page whose first entry is a time extend followed by one
\* data event gives exactly one Event, whose timestamp is the timestamp of
\* the page plus delta_lo | (delta_hi << 27) plus the time_delta of the
\* data event, modulo 2^64
C24_ExtendedTimestampAndDelta ==
    \A k \in 1..Len(pageEvents) :
        ExtendThenEvent(rawPages[k])
            => /\ Len(pageEvents[k].events) = 1
               /\ pageEvents[k].events[1].When
                      = U64Add(U64Add(rawPages[k].timestamp,
                                      ExtendedDelta(rawPages[k].entries[1])),
                               rawPages[k].entries[2].delta)

\* A page with a time extend of both words and an event with a time_delta
\* is decoded
C24_Witness ==
    /\ Len(pageEvents) >= 1
    /\ rawPages[1].entries = <<Entry("ext", 0, One64, One64), Entry("data", 1, One64, Zero64)>>
    /\ Len(pageEvents[1].events) = 1
    /\ pageEvents[1].events[1].When
           = U64Add(rawPages[1].timestamp, <<2, 0, 0, 8, 0, 0, 0, 0>>)

\* ------------------------------------------------------------------------
\* Properties of the pages of any bytes
\* ------------------------------------------------------------------------

\* The panic of the runtime on a slice that ends after the data
SlicePanic == "panic: slice bounds out of range"

\* The entries that decodePage steps over whole
WholeKinds == {"data", "long", "ext", "discarded", "other"}

\* decodePage gets to the last entry of the page, and that entry says more
\* than the committed payload holds
LastOverruns(page) ==
    /\ page.entries # <<>>
    /\ page.entries[Len(page.entries)].kind \in OverrunKinds
    /\ \A i \in 1..(Len(page.entries) - 1) : page.entries[i].kind \in WholeKinds

\* C22: when the extent that an entry declares reaches past the committed
\* payload, decodePage returns an error for the page, with no access
\* outside the payload, and the next page is decoded
C22_OverrunIsError ==
    \A k \in 1..Len(pageEvents) :
        LastOverruns(rawPages[k])
            => pageEvents[k].err # "" /\ pageEvents[k].err # SlicePanic

\* decodePage gets to a padding with no time_delta: the entries before it
\* are stepped over whole, and entries follow it
EndMet(page) ==
    /\ Len(BeforeEnd(page.entries)) < Len(page.entries) - 1
    /\ \A i \in 1..Len(BeforeEnd(page.entries)) : page.entries[i].kind \in WholeKinds

\* C25: at an entry with type_len 29 and time_delta 0 the decoding of the
\* page ends: the events of the entries before it are returned, no entry
\* after it is looked at, and no error comes from the padding or from the
\* bytes after it
C25_EndPaddingEndsPage ==
    \A k \in 1..Len(pageEvents) :
        EndMet(rawPages[k])
            => /\ DecodedTypes(k) = DeliveredTypes(BeforeEnd(rawPages[k].entries))
               /\ IF \E i \in 1..Len(BeforeEnd(rawPages[k].entries)) :
                         Dropped(rawPages[k].entries[i])
                  THEN pageEvents[k].err \in LazyErrors
                  ELSE pageEvents[k].err = ""

\* A page is decoded that has an event, the padding that ends it, and after
\* the padding an entry that says more than the page holds
C25_Witness ==
    /\ Len(pageEvents) >= 1
    /\ Len(rawPages[1].entries) = 3
    /\ rawPages[1].entries[1] = Entry("data", 1, One64, Zero64)
    /\ rawPages[1].entries[2].kind = "end"
    /\ rawPages[1].entries[3].kind = "pastpad"
    /\ Len(pageEvents[1].events) = 1
    /\ pageEvents[1].err = ""

\* The committed length of a page: the bytes of its entries
Committed(page) == Len(EntriesBytes(page.entries))

\* C28: decodePage terminates, every pass of its loop returning or taking
\* at least 4 bytes from the payload, so that the loop runs at most
\* (committed length / 4) times
C28_PassesWithinQuarter ==
    \A k \in 1..Len(pageEvents) : pageEvents[k].passes <= Committed(rawPages[k]) \div 4

\* C28 (amended): decodePage terminates, every pass of its loop returning
\* or taking at least 4 bytes from the payload, so that the loop runs at
\* most (committed length / 4) times, rounded up: a payload that ends with
\* 1 to 3 bytes has one more pass, which returns the error
C28_PassesWithinQuarterRoundedUp ==
    \A k \in 1..Len(pageEvents) :
        /\ pageEvents[k].passes <= (Committed(rawPages[k]) + 3) \div 4
        /\ Committed(rawPages[k]) % 4 = 0
               => pageEvents[k].passes <= Committed(rawPages[k]) \div 4

\* A page of three entries of 4 bytes is decoded in three passes
C28_Witness ==
    /\ Len(pageEvents) >= 1
    /\ Len(rawPages[1].entries) = 3
    /\ Committed(rawPages[1]) = 12
    /\ pageEvents[1].passes = 3

\* ------------------------------------------------------------------------
\* The capture when the raw pipes end
\* ------------------------------------------------------------------------

\* Every raw pipe gave io.EOF or an error and its reader closed its channel
AllPipesEnded == \A cpu \in Cpus : reader[cpu].pc = "closed"

\* The events of the pages 1..n of a cpu, in the order of the pages
PagesOf(cpu, n) == [i \in 1..n |-> PageEvents(cpu, i)]

\* Capture returned with doneCh open: every page that was read was handed
\* to the callback, which has returned
AllPagesDelivered ==
    (capture.pc = "returned" /\ ~done)
        => /\ AllPipesEnded
           /\ running = 0
           /\ \A cpu \in Cpus : delivered[cpu] = PagesOf(cpu, pagesRead[cpu])

\* A case that is out of f.selectCases stays out and is not chosen
ClosedStaysOut ==
    \A cpu \in Cpus :
        cpu \notin capture.selectCases
            => cpu \notin capture'.selectCases /\ capture'.chosen # cpu

\* C26: when every raw pipe has ended, Capture returns although doneCh is
\* never closed; by then the events of every page read from every pipe
\* have been passed to the callback; and the case of a closed channel is
\* taken out of the set that Capture waits on and never chosen again
C26_CaptureEndsWithPipes ==
    /\ AllPipesEnded ~> (capture.pc = "returned")
    /\ []AllPagesDelivered
    /\ [][ClosedStaysOut]_vars

\* Capture returned with doneCh open after every cpu gave MaxPages pages
C26_Witness ==
    /\ capture.pc = "returned"
    /\ ~done
    /\ capture.selectCases = {}
    /\ \A cpu \in Cpus : Len(delivered[cpu]) = MaxPages

\* ------------------------------------------------------------------------
\* Division and remainder
\* ------------------------------------------------------------------------

\* expr is a / or a % of two constants, folded by newOperatorExpression
FoldedDivision ==
    /\ expr.kind = "constantExpression"
    /\ expr.exp.kind = "operatorExpression"
    /\ expr.exp.operator.val \in DivisionOps

\* C27: a / or a % of two integers gives an Integer or an Error value, when
\* it is evaluated on the fields of an event and when the parser folds it,
\* a right operand of zero included
C27_DivisionNeverAborts ==
    /\ (Evaluated /\ BinaryOnInts(DivisionOps))
            => (IsInt(result.val) \/ IsError(result.val))
    /\ FoldedDivision => (IsInt(expr.val) \/ IsError(expr.val))

\* ------------------------------------------------------------------------
\* Properties of the lexer
\* ------------------------------------------------------------------------

\* The tokens sent on l.tokens so far, received or not
Sent == tokens \o lexer.sending

\* An error token is the last one sent, and the loop of l.run() has ended
ErrorTokenLast ==
    \A i \in 1..Len(Sent) :
        Sent[i].typ = "tokenError" => i = Len(Sent) /\ lexer.state = "nil"

\* When l.tokens is closed the consumer has the tokens of allTokens
ClosedWithAllTokens == lexer.closed => (tokens = allTokens(input) /\ lexer.sending = <<>>)

\* A step of the loop of l.run() ends the loop or advances l.pos
StepAdvances == LexerStep => (lexer'.state = "nil" \/ lexer'.pos > lexer.pos)

\* A step of the loop of l.run() ends the loop or advances l.pos, or it is
\* lexNone handing over to the state that will
StepAdvancesOrSelects ==
    LexerStep =>
        \/ lexer'.state = "nil"
        \/ lexer'.pos > lexer.pos
        \/ /\ lexer.state = "lexNone"
           /\ lexer'.state \notin {"lexNone", "nil"}
           /\ stateFn(lexer'.state, input, lexer'.pos).pos > lexer'.pos

\* C29 as stated: with a consumer that keeps receiving, l.run() ends and
\* closes l.tokens; every step of its loop ends the loop or advances l.pos;
\* at most one error token is sent, and it is the last token sent
C29_EveryStepAdvances ==
    /\ <>(lexer.closed)
    /\ [][StepAdvances]_vars
    /\ []ErrorTokenLast

\* C29: with a consumer that keeps receiving, l.run() ends and closes
\* l.tokens, the consumer having received the tokens of the input; every
\* step of its loop ends the loop or advances l.pos, but for lexNone, which
\* picks the state for the character at l.pos, and that state advances
\* l.pos; at most one error token is sent, and it is the last token sent
C29_LexerTerminates ==
    /\ <>(lexer.closed)
    /\ [][StepAdvancesOrSelects]_vars
    /\ [](ErrorTokenLast /\ ClosedWithAllTokens)

\* l.tokens is closed after a symbol and then an error token were received
C29_Witness ==
    /\ lexer.closed
    /\ Len(tokens) = 2
    /\ tokens[1].typ = "tokenSymbol"
    /\ tokens[2].typ = "tokenError"

\* ------------------------------------------------------------------------
\* Properties of the event types
\* ------------------------------------------------------------------------

\* The id that the lines of a format file give: that of its last ID line, 0
\* without one
FormatId(lines) ==
    LET ids == {i \in 1..Len(lines) : lines[i].key = "ID"}
    IN  IF ids = {} THEN 0
        ELSE Atoi(lines[CHOOSE i \in ids : \A j \in ids : j <= i].value)

\* A format file that cannot be parsed: a line without a colon, an ID that
\* is no number, a field without type and name
Unparsable(file) ==
    \E i \in 1..Len(file.lines) :
        LET line == file.lines[i]
        IN  \/ ~line.colon /\ line # FormatLine(FALSE, "", "")
            \/ line.key = "ID" /\ Atoi(line.value) = -1
            \/ line.key = "field" /\ parseField(line.value) # ""

\* The calls that the registry has to refuse
Refused(path, file) ==
    \/ ~file.readable
    \/ Unparsable(file)
    \/ FormatId(file.lines) \in DOMAIN eventTypes

\* NewEventType returned an error
ReturnedError == fileResult'.err \notin {"", SliceBoundsPanic}

\* Every id registered keeps its event type
FirstKept == \A id \in DOMAIN eventTypes : id \in DOMAIN eventTypes' /\ eventTypes'[id] = eventTypes[id]

\* C30: every id keeps the event type that was registered first with it,
\* and a call of NewEventType with a format file that cannot be read or
\* parsed, or that carries an id already registered, returns an error and
\* leaves f.eventTypes as it was
C30_RegistryKeepsFirst ==
    [][\A path \in EventPaths, file \in FormatFiles :
            NewEventTypeOf(path, file) =>
                /\ FirstKept
                /\ Refused(path, file) => (ReturnedError /\ eventTypes' = eventTypes)]_vars

====
